---------------------------- MODULE Spec2Model ----------------------------
(***************************************************************************)
(* A model of fipsy: the peer scan (tui/workers.py scan_peers_iter and     *)
(* _fetch_peer_index), publish-all (tui/workers.py publish_all_iter), the  *)
(* SQLite state store (db.py) and the discovery index document             *)
(* (commands.py _write_index_json, read back by _fetch_peer_index).        *)
(*                                                                         *)
(* Strings of the program are sequences of one-character strings, so that  *)
(* JSON text is written and parsed character by character.                 *)
(***************************************************************************)
EXTENDS Integers, Sequences, FiniteSets, TLC

(***************************************************************************)
(* Python values.                                                          *)
(***************************************************************************)

\* SQL NULL / Python None where a string is expected. Program strings hold
\* one-character elements only, so this is no program string.
NULL == <<"NULL">>

\* JSON values as json.loads builds them.
JStr(s) == [t |-> "str", s |-> s]
JNum(d) == [t |-> "num", s |-> d]
JNull == [t |-> "null"]
JArr(a) == [t |-> "arr", a |-> a]
\* A dict: the sequence of its <<key, value>> items in insertion order, keys
\* distinct.
JObj(m) == [t |-> "obj", m |-> m]

DictKeys(m) == {m[i][1] : i \in 1..Len(m)}

DictHas(m, k) == \E i \in 1..Len(m) : m[i][1] = k

\* dict.get(k, default)
DictGet(m, k, default) ==
    IF DictHas(m, k)
    THEN m[CHOOSE i \in 1..Len(m) : m[i][1] = k][2]
    ELSE default

\* d[k] = v: an existing key keeps its place, a new key goes last.
DictSet(m, k, v) ==
    IF DictHas(m, k)
    THEN [i \in 1..Len(m) |-> IF m[i][1] = k THEN <<k, v>> ELSE m[i]]
    ELSE Append(m, <<k, v>>)

\* Two dicts are equal when they hold the same items, whatever the order.
DictEq(m1, m2) ==
    {m1[i] : i \in 1..Len(m1)} = {m2[i] : i \in 1..Len(m2)}

\* A dict of str as JSON members.
JMembers(ks) == [i \in DOMAIN ks |-> <<ks[i][1], JStr(ks[i][2])>>]

\* Python truthiness of a JSON value (`if not ipns_keys`).
Truthy(v) ==
    CASE v.t = "null" -> FALSE
      [] v.t = "str" -> v.s # <<>>
      [] v.t = "num" -> v.s # <<"0">>
      [] v.t = "arr" -> v.a # <<>>
      [] v.t = "obj" -> v.m # <<>>

(***************************************************************************)
(* json.dumps(data, indent=2)                                              *)
(***************************************************************************)

Indent(n) == [k \in 1..(2 * n) |-> " "]

\* EscapeChar leaving the double quote as it is.
EscapeChar_quote_unescaped(c) ==
    IF c = "\\" THEN <<"\\", "\\">>
    ELSE IF c = "\n" THEN <<"\\", "n">>
    ELSE <<c>>

\* The escapes of json's string encoder for the characters of the model.
EscapeChar(c) ==
    IF c = "\"" THEN <<"\\", "\"">>
    ELSE IF c = "\\" THEN <<"\\", "\\">>
    ELSE IF c = "\n" THEN <<"\\", "n">>
    ELSE <<c>>

RECURSIVE EscapeStr(_)
EscapeStr(s) ==
    IF s = <<>> THEN <<>> ELSE EscapeChar(Head(s)) \o EscapeStr(Tail(s))

EncodeStr(s) == <<"\"">> \o EscapeStr(s) \o <<"\"">>

RECURSIVE JsonDumps(_, _)
RECURSIVE DumpMembers(_, _, _)
RECURSIVE DumpElements(_, _, _)
JsonDumps(v, lvl) ==
    CASE v.t = "str" -> EncodeStr(v.s)
      [] v.t = "num" -> v.s
      [] v.t = "null" -> <<"n", "u", "l", "l">>
      [] v.t = "arr" ->
            IF v.a = <<>> THEN <<"[", "]">>
            ELSE <<"[", "\n">> \o DumpElements(v.a, 1, lvl + 1)
                     \o <<"\n">> \o Indent(lvl) \o <<"]">>
      [] v.t = "obj" ->
            IF v.m = <<>> THEN <<"{", "}">>
            ELSE <<"{", "\n">> \o DumpMembers(v.m, 1, lvl + 1)
                     \o <<"\n">> \o Indent(lvl) \o <<"}">>

DumpMembers(m, k, lvl) ==
    Indent(lvl) \o EncodeStr(m[k][1]) \o <<":", " ">> \o JsonDumps(m[k][2], lvl)
        \o (IF k < Len(m) THEN <<",", "\n">> \o DumpMembers(m, k + 1, lvl)
            ELSE <<>>)

DumpElements(a, k, lvl) ==
    Indent(lvl) \o JsonDumps(a[k], lvl)
        \o (IF k < Len(a) THEN <<",", "\n">> \o DumpElements(a, k + 1, lvl)
            ELSE <<>>)

(***************************************************************************)
(* json.loads(raw)                                                         *)
(***************************************************************************)

IsWs(c) == c \in {" ", "\n"}

IsDigit(c) == c \in {"0", "1", "2", "3", "4", "5", "6", "7", "8", "9"}

RECURSIVE SkipWs(_, _)
SkipWs(t, i) == IF i <= Len(t) /\ IsWs(t[i]) THEN SkipWs(t, i + 1) ELSE i

\* JSONDecodeError
ParseFail == [ok |-> FALSE]

ParseOk(v, i) == [ok |-> TRUE, v |-> v, i |-> i]

\* The string whose opening quote precedes position i.
RECURSIVE ScanString(_, _, _)
ScanString(t, i, acc) ==
    IF i > Len(t) THEN ParseFail
    ELSE IF t[i] = "\"" THEN ParseOk(JStr(acc), i + 1)
    ELSE IF t[i] = "\n" THEN ParseFail
    ELSE IF t[i] = "\\"
         THEN IF i + 1 > Len(t) THEN ParseFail
              ELSE IF t[i + 1] \in {"\"", "\\"}
                   THEN ScanString(t, i + 2, Append(acc, t[i + 1]))
              ELSE IF t[i + 1] = "n"
                   THEN ScanString(t, i + 2, Append(acc, "\n"))
              ELSE ParseFail
    ELSE ScanString(t, i + 1, Append(acc, t[i]))

RECURSIVE ScanNumber(_, _, _)
ScanNumber(t, i, acc) ==
    IF i <= Len(t) /\ IsDigit(t[i])
    THEN ScanNumber(t, i + 1, Append(acc, t[i]))
    ELSE ParseOk(JNum(acc), i)

RECURSIVE ParseValue(_, _)
RECURSIVE ParseMembers(_, _, _)
RECURSIVE ParseElements(_, _, _)
ParseValue(t, i) ==
    IF i > Len(t) THEN ParseFail
    ELSE IF t[i] = "\"" THEN ScanString(t, i + 1, <<>>)
    ELSE IF t[i] = "{"
         THEN LET j == SkipWs(t, i + 1)
              IN  IF j <= Len(t) /\ t[j] = "}" THEN ParseOk(JObj(<<>>), j + 1)
                  ELSE ParseMembers(t, j, <<>>)
    ELSE IF t[i] = "["
         THEN LET j == SkipWs(t, i + 1)
              IN  IF j <= Len(t) /\ t[j] = "]" THEN ParseOk(JArr(<<>>), j + 1)
                  ELSE ParseElements(t, j, <<>>)
    ELSE IF t[i] = "n"
         THEN IF i + 3 <= Len(t) /\ SubSeq(t, i, i + 3) = <<"n", "u", "l", "l">>
              THEN ParseOk(JNull, i + 4)
              ELSE ParseFail
    ELSE IF IsDigit(t[i])
         THEN IF t[i] = "0" THEN ParseOk(JNum(<<"0">>), i + 1)
              ELSE ScanNumber(t, i, <<>>)
    ELSE ParseFail

\* The members of an object from the key at position i on; a repeated key
\* keeps its last value.
ParseMembers(t, i, acc) ==
    IF i > Len(t) \/ t[i] # "\"" THEN ParseFail
    ELSE LET k == ScanString(t, i + 1, <<>>)
         IN  IF ~k.ok THEN ParseFail
             ELSE LET j == SkipWs(t, k.i)
                  IN  IF j > Len(t) \/ t[j] # ":" THEN ParseFail
                      ELSE LET v == ParseValue(t, SkipWs(t, j + 1))
                           IN  IF ~v.ok THEN ParseFail
                               ELSE LET acc2 == DictSet(acc, k.v.s, v.v)
                                        e == SkipWs(t, v.i)
                                    IN  IF e > Len(t) THEN ParseFail
                                        ELSE IF t[e] = "}"
                                             THEN ParseOk(JObj(acc2), e + 1)
                                        ELSE IF t[e] = ","
                                             THEN ParseMembers(t, SkipWs(t, e + 1), acc2)
                                        ELSE ParseFail

ParseElements(t, i, acc) ==
    LET v == ParseValue(t, i)
    IN  IF ~v.ok THEN ParseFail
        ELSE LET e == SkipWs(t, v.i)
             IN  IF e > Len(t) THEN ParseFail
                 ELSE IF t[e] = "]" THEN ParseOk(JArr(Append(acc, v.v)), e + 1)
                 ELSE IF t[e] = ","
                      THEN ParseElements(t, SkipWs(t, e + 1), Append(acc, v.v))
                 ELSE ParseFail

\* json.loads: one value, white space around it, nothing after it.
JsonLoads(t) ==
    LET r == ParseValue(t, SkipWs(t, 1))
    IN  IF ~r.ok THEN ParseFail
        ELSE IF SkipWs(t, r.i) = Len(t) + 1 THEN [ok |-> TRUE, v |-> r.v]
        ELSE ParseFail

\* str.strip() of run_ipfs's stdout.
RECURSIVE RStrip(_)
RStrip(t) ==
    IF t # <<>> /\ IsWs(t[Len(t)]) THEN RStrip(SubSeq(t, 1, Len(t) - 1)) ELSE t

Strip(t) == LET r == RStrip(t) IN SubSeq(r, SkipWs(r, 1), Len(r))

(***************************************************************************)
(* db.py: the state store.  A table is the set of its rows.                *)
(***************************************************************************)

\* upsert_discovered with ON CONFLICT(node_id, ipns_key) DO NOTHING.
upsert_discovered_do_nothing(tbl, node_id, ipns_key, name) ==
    IF node_id = NULL \/ ipns_key = NULL
    THEN [err |-> TRUE, tbl |-> tbl]
    ELSE [err |-> FALSE,
          tbl |-> IF \E r \in tbl : r.node_id = node_id /\ r.ipns_key = ipns_key
                  THEN tbl
                  ELSE tbl \cup {[node_id |-> node_id, ipns_key |-> ipns_key,
                                  name |-> name]}]

\* upsert_published with DO UPDATE SET name = excluded.name alone.
upsert_published_name_only(tbl, path, name, added) ==
    IF \E r \in tbl : r.path = path
    THEN {IF r.path = path THEN [r EXCEPT !.name = name] ELSE r : r \in tbl}
    ELSE tbl \cup {[path |-> path, name |-> name, added |-> added]}

\* upsert_discovered with ON CONFLICT(ipns_key) alone.
upsert_discovered_by_pointer(tbl, node_id, ipns_key, name) ==
    IF node_id = NULL \/ ipns_key = NULL
    THEN [err |-> TRUE, tbl |-> tbl]
    ELSE [err |-> FALSE,
          tbl |-> IF \E r \in tbl : r.ipns_key = ipns_key
                  THEN {IF r.ipns_key = ipns_key
                        THEN [r EXCEPT !.name = name]
                        ELSE r : r \in tbl}
                  ELSE tbl \cup {[node_id |-> node_id, ipns_key |-> ipns_key,
                                  name |-> name]}]

\* upsert_discovered as a replacement of the node's rows.
upsert_discovered_replacing(tbl, node_id, ipns_key, name) ==
    IF node_id = NULL \/ ipns_key = NULL
    THEN [err |-> TRUE, tbl |-> tbl]
    ELSE [err |-> FALSE,
          tbl |-> {r \in tbl : r.node_id # node_id}
                      \cup {[node_id |-> node_id, ipns_key |-> ipns_key,
                             name |-> name]}]

\* INSERT INTO discovered ... ON CONFLICT(node_id, ipns_key) DO UPDATE SET
\* name = excluded.name.  node_id and ipns_key are NOT NULL: a NULL there
\* raises sqlite3.IntegrityError and leaves the table as it was.
upsert_discovered(tbl, node_id, ipns_key, name) ==
    IF node_id = NULL \/ ipns_key = NULL
    THEN [err |-> TRUE, tbl |-> tbl]
    ELSE [err |-> FALSE,
          tbl |-> IF \E r \in tbl : r.node_id = node_id /\ r.ipns_key = ipns_key
                  THEN {IF r.node_id = node_id /\ r.ipns_key = ipns_key
                        THEN [r EXCEPT !.name = name]
                        ELSE r : r \in tbl}
                  ELSE tbl \cup {[node_id |-> node_id, ipns_key |-> ipns_key,
                                  name |-> name]}]

\* INSERT INTO published ... ON CONFLICT(path) DO UPDATE SET name =
\* excluded.name, added = excluded.added.
upsert_published(tbl, path, name, added) ==
    IF \E r \in tbl : r.path = path
    THEN {IF r.path = path THEN [r EXCEPT !.name = name, !.added = added]
          ELSE r : r \in tbl}
    ELSE tbl \cup {[path |-> path, name |-> name, added |-> added]}

\* delete_published without its WHERE clause.
delete_published_all(tbl, path) ==
    [tbl |-> {}, deleted |-> tbl # {}]

\* DELETE FROM published WHERE path = ?; cursor.rowcount > 0.
delete_published(tbl, path) ==
    [tbl |-> {r \in tbl : r.path # path},
     deleted |-> \E r \in tbl : r.path = path]

(***************************************************************************)
(* The content service as the scan sees it.                                *)
(***************************************************************************)

PeerIds == {<<"p">>, <<"q">>, <<"r">>}

\* Lines of `ipfs swarm peers`: a multiaddr ending in the peer id.  A peer
\* connected over two transports is listed twice.
SwarmLines ==
    {<<"/", "4", "/", "p">>, <<"/", "6", "/", "p">>, <<"/", "4", "/", "q">>,
     <<"/", "4", "/", "r", "/">>}

\* The most lines `ipfs swarm peers` prints.
MaxSwarmLines == 2

RECURSIVE SeqsUpTo(_, _)
SeqsUpTo(S, n) ==
    IF n = 0 THEN {<<>>}
    ELSE LET shorter == SeqsUpTo(S, n - 1)
         IN  shorter \cup {Append(s, e) : s \in {t \in shorter : Len(t) = n - 1},
                                         e \in S}

SwarmOutputs == SeqsUpTo(SwarmLines, MaxSwarmLines)

\* line.rstrip("/")
RECURSIVE RStripSlash(_)
RStripSlash(s) ==
    IF s # <<>> /\ s[Len(s)] = "/" THEN RStripSlash(SubSeq(s, 1, Len(s) - 1))
    ELSE s

\* s.split("/")[-1]
RECURSIVE LastSegment(_)
LastSegment(s) ==
    IF s = <<>> \/ s[Len(s)] = "/" THEN <<>>
    ELSE Append(LastSegment(SubSeq(s, 1, Len(s) - 1)), s[Len(s)])

\* swarm_peers keeping the lines whole.
swarm_peers_by_address(output) ==
    IF output = <<>> THEN {}
    ELSE {RStripSlash(output[i]) : i \in 1..Len(output)}

\* ipfs.swarm_peers: the distinct peer ids of the output's lines.
swarm_peers(output) ==
    IF output = <<>> THEN {}
    ELSE {LastSegment(RStripSlash(output[i])) : i \in 1..Len(output)}

Str_ipns == <<"i", "p", "n", "s">>

IpnsDoc(m) == JObj(<< <<Str_ipns, JObj(m)>> >>)

\* What a peer may serve at /ipns/<peer_id>/index.json: no JSON, JSON that
\* is no object, objects without pointers, and pointer maps; `same` gives two
\* names to one pointer, the id of peer p, beside an unknown top-level key.
DocText ==
    [garbage |-> <<"<", "h", ">">>,
     arr     |-> JsonDumps(JArr(<<>>), 0),
     noipns  |-> JsonDumps(JObj(<< <<<<"v">>, JNum(<<"1">>)>> >>), 0),
     empty   |-> JsonDumps(IpnsDoc(<<>>), 0),
     one     |-> JsonDumps(IpnsDoc(<< <<<<"a">>, JStr(<<"k">>)>> >>), 0),
     two     |-> JsonDumps(IpnsDoc(<< <<<<"a">>, JStr(<<"k">>)>>,
                                      <<<<"b">>, JStr(<<"m">>)>> >>), 0),
     same    |-> JsonDumps(JObj(<< <<<<"v">>, JNum(<<"1">>)>>,
                                   <<Str_ipns,
                                     JObj(<< <<<<"a">>, JStr(<<"p">>)>>,
                                             <<<<"b">>, JStr(<<"p">>)>> >>)>> >>), 0)]

DocIds == DOMAIN DocText

\* The ways `ipfs cat` ends: run_ipfs raises, or returns the stripped output.
CatOutcomes ==
    {[kind |-> "TimeoutExpired"], [kind |-> "CalledProcessError"],
     [kind |-> "OSError"]}
        \cup {[kind |-> "ok", doc |-> d, raw |-> Strip(DocText[d])] : d \in DocIds}

\* The ways `ipfs name resolve` ends.
ResolveOutcomes ==
    {[kind |-> "TimeoutExpired"], [kind |-> "CalledProcessError"],
     [kind |-> "ok", path |-> <<"/", "i", "p", "f", "s", "/", "c">>]}

\* The Python value of a JSON scalar.
PyVal(v) == IF v.t = "null" THEN NULL ELSE v.s

(***************************************************************************)
(* tui/workers.py: _resolve_key and _fetch_peer_index                      *)
(***************************************************************************)

\* _resolve_key: the resolved path, None when the call fails or times out.
resolve_key(outcome) ==
    IF outcome.kind \in {"CalledProcessError", "TimeoutExpired"} THEN NULL
    ELSE outcome.path

\* _fetch_peer_index from json.loads to data.get("ipns", {}): JSONDecodeError
\* (which the function catches), an exception it does not catch (data is no
\* dict), or the value of ipns_keys.
parse_index(raw) ==
    LET data == JsonLoads(raw)
    IN  IF ~data.ok THEN [kind |-> "JSONDecodeError"]
        ELSE IF data.v.t # "obj" THEN [kind |-> "exc"]
        ELSE [kind |-> "val", v |-> DictGet(data.v.m, Str_ipns, JObj(<<>>))]

\* The first half of _fetch_peer_index, to the parsed pointer map: None
\* (ret), the pointer map to resolve (keys), or an exception the function
\* does not catch (exc).
fetch_index(outcome) ==
    IF outcome.kind \in {"CalledProcessError", "TimeoutExpired", "OSError"}
    THEN [kind |-> "ret"]
    ELSE LET r == parse_index(outcome.raw)
         IN  IF r.kind = "JSONDecodeError" THEN [kind |-> "ret"]
             ELSE IF r.kind = "exc" THEN [kind |-> "exc"]
             ELSE IF ~Truthy(r.v) THEN [kind |-> "ret"]
             ELSE IF r.v.t # "obj" THEN [kind |-> "exc"]
             ELSE [kind |-> "keys", keys |-> r.v.m]

\* The fetch result of every outcome (a constant of the model).
FetchIndexOf == [o \in CatOutcomes |-> fetch_index(o)]

\* peer_entry with the display name stored as the pointer.
peer_entry_name_as_pointer(peer_id, ipns_keys, name, outcome) ==
    LET resolved == resolve_key(outcome)
    IN  [peer_id |-> peer_id, name |-> name, ipns_name |-> name,
         cid |-> IF resolved # NULL /\ resolved # <<>>
                 THEN LastSegment(resolved) ELSE NULL]

\* The entry appended for one completed resolution.
peer_entry(peer_id, ipns_keys, name, outcome) ==
    LET resolved == resolve_key(outcome)
    IN  [peer_id |-> peer_id, name |-> name,
         ipns_name |-> PyVal(DictGet(ipns_keys, name, JNull)),
         cid |-> IF resolved # NULL /\ resolved # <<>>
                 THEN LastSegment(resolved) ELSE NULL]

(***************************************************************************)
(* Program constants.                                                      *)
(***************************************************************************)

\* tui/workers.py MAX_WORKERS
MAX_WORKERS == 20
\* tui/workers.py MANY_PEERS_THRESHOLD
MANY_PEERS_THRESHOLD == 20
\* tui/workers.py FAST_CAT_TIMEOUT, in hundredths of a second
FAST_CAT_TIMEOUT == 269
\* ipfs.py DEFAULT_CAT_TIMEOUT, in hundredths of a second
DEFAULT_CAT_TIMEOUT == 500
\* tui/workers.py _fetch_peer_index: ThreadPoolExecutor(max_workers=min(10, ...))
RESOLVE_WORKERS == 10

Min(a, b) == IF a < b THEN a ELSE b

\* ipfs.py DEFAULT_RESOLVE_TIMEOUT, in hundredths of a second
DEFAULT_RESOLVE_TIMEOUT == 1000

\* The timeout each operation of ipfs.py hands to run_ipfs; NULL is run_ipfs's
\* default, timeout=None.
AdapterTimeout ==
    [node_id       |-> NULL,
     swarm_peers   |-> NULL,
     cat_path      |-> DEFAULT_CAT_TIMEOUT,
     key_list      |-> NULL,
     key_gen       |-> NULL,
     add_directory |-> NULL,
     name_resolve  |-> DEFAULT_RESOLVE_TIMEOUT,
     name_publish  |-> NULL,
     pin_add       |-> NULL,
     pin_ls        |-> NULL]

\* run_ipfs: the ways subprocess.run(..., check=True, timeout=timeout) ends
\* when the daemon may not answer: with a timeout it raises TimeoutExpired,
\* with timeout=None it waits for the process and never returns.
RunEnds(timeout) ==
    {"ok", "CalledProcessError"}
        \cup (IF timeout = NULL THEN {"never"} ELSE {"TimeoutExpired"})

(***************************************************************************)
(* State.                                                                  *)
(***************************************************************************)

VARIABLES
    discovered,     \* the discovered table: a set of rows
    published,      \* the published table: a set of rows
    discovered0,    \* history: the discovered table when the scan started
    published0,     \* history: the published table when the operation started
    calls,          \* the content-service operations invoked so far
    scan_pc,        \* where the scan worker and its generator stand
    scan_total,     \* FipsyApp._scan_total
    scan_done,      \* FipsyApp._scan_done
    network_status, \* the text of #network-status
    peers,          \* scan_peers_iter: peers
    cat_timeout,    \* scan_peers_iter: cat_timeout
    fut,            \* scan_peers_iter: the future of every peer
    done_q,         \* the finished futures as_completed has yet to hand over
    yielded,        \* what scan_peers_iter has yielded: the total, then results
    peer_table,     \* the row keys of #peer-table
    local_keys,     \* the daemon's key store: key name -> key id
    dirs,           \* the directories that exist on disk
    pub_pc,         \* where the publish worker and its generator stand
    publish_total,  \* FipsyApp._publish_total
    publish_done,   \* FipsyApp._publish_done
    pub_list,       \* publish_all_iter: published
    pub_i,          \* publish_all_iter: the entry the loop stands at
    keys,           \* publish_all_iter: keys
    published_keys, \* publish_all_iter: published_keys
    pub_yielded,    \* what publish_all_iter has yielded
    scratch,        \* the scratch directory: none, exists, removed
    index_json,     \* the text of index.json in the scratch directory
    self_index,     \* the index.json last published under the self name
    svc_errors,     \* history: the content-service calls of publish that failed
    db_log,         \* history: the calls made on the state store, in order
    rt_pc,          \* the index round trip: init, written, parsed
    rt_src,         \* who wrote the document: this node, or a foreign peer
    rt_parsed,      \* what the fetcher's parser made of the document
    fo_pc,          \* the fan-out of a scan: idle, submitted, done
    fo_peers,       \* the fan-out: len(peers)
    fo_cat_timeout, \* the fan-out: cat_timeout
    fo_used,        \* history: the timeouts handed to ipfs.cat_path
    fo_waiting,     \* fetches of peers without pointers the pool has not started
    fo_running,     \* fetches of peers without pointers that are running
    fo_fetch,       \* the fetches of the peers whose index lists pointers
    db_schema,      \* the tables that exist in the database file
    swarm_lines,    \* history: the lines `ipfs swarm peers` printed to the scan
    add_pc,         \* where the add worker and workers.add_directory stand
    add_path,       \* add_directory: abs_path
    add_key,        \* add_directory: key_name
    add_done,       \* history: the steps of this add that succeeded
    adds,           \* history: the adds started
    browse_pc,      \* where the browse worker stands
    boot_pc,        \* where the start of the program stands
    installed,      \* the ipfs binary is on the PATH
    daemon,         \* the daemon: down, up
    polls,          \* start_daemon: elapsed
    found,          \* history: what the last availability check found
    scan_threads,   \* the threads of the scans started: what each has left
    cli_pc,         \* where the store loop of the command scan stands
    cli_results,    \* scan: results
    cli_pin,        \* scan: pin
    cli_i,          \* scan: the result the loop stands at
    cli_j,          \* scan: the name of that result the loop stands at
    cli_pins        \* history: the pins requested and how each ended

dbVars == <<discovered, published, discovered0, published0>>
scanVars == <<scan_pc, scan_total, scan_done, network_status, peers,
              cat_timeout, fut, done_q, yielded, peer_table>>
envVars == <<local_keys, dirs>>
pubVars == <<pub_pc, publish_total, publish_done, pub_list, pub_i, keys,
             published_keys, pub_yielded, scratch, index_json, self_index,
             svc_errors>>
rtVars == <<rt_pc, rt_src, rt_parsed>>
fanVars == <<fo_pc, fo_peers, fo_cat_timeout, fo_used, fo_waiting, fo_running,
             fo_fetch>>
contentVars == <<add_pc, add_path, add_key, add_done, adds, browse_pc>>
bootVars == <<boot_pc, installed, daemon, polls, found>>
cliVars == <<cli_pc, cli_results, cli_pin, cli_i, cli_j, cli_pins>>
appVars == <<db_schema, swarm_lines, contentVars, bootVars, scan_threads,
             cliVars>>
vars == <<dbVars, calls, scanVars, envVars, pubVars, db_log, rtVars, fanVars,
          appVars>>

Row(node_id, ipns_key, name) ==
    [node_id |-> node_id, ipns_key |-> ipns_key, name |-> name]

\* Contents the store may hold from earlier runs.
StoredBefore ==
    {[d |-> {}, p |-> {}],
     [d |-> {Row(<<"p">>, <<"p">>, NULL), Row(<<"p">>, <<"k">>, <<"z">>)},
      p |-> {[path |-> <<"/", "x">>, name |-> <<"a">>, added |-> 0]}]}

InitStore ==
    \E s \in StoredBefore :
        /\ discovered = s.d
        /\ published = s.p
        /\ discovered0 = s.d
        /\ published0 = s.p

InitScanVars ==
    /\ scan_pc = "idle"
    /\ scan_total = 0
    /\ scan_done = 0
    /\ network_status = "No peers scanned yet."
    /\ peers = {}
    /\ cat_timeout = DEFAULT_CAT_TIMEOUT
    /\ fut = <<>>
    /\ done_q = <<>>
    /\ yielded = <<>>
    /\ peer_table = {}

(***************************************************************************)
(* tui/app.py _start_scan, _scan_worker; tui/workers.py scan_peers_iter    *)
(***************************************************************************)

\* A future: where _fetch_peer_index stands (st), its ipns_keys, the names
\* still to resolve, result.entries, and how it ended (ret: None, exc, result).
\* cat and outs are history: the document the index fetch got ("failed" when
\* the call raised), and of each resolution whether the call succeeded.
Pending == [st |-> "pending", cat |-> "", keys |-> <<>>, todo |-> {},
            outs |-> {}, entries |-> <<>>, ret |-> ""]

\* FipsyApp._start_scan: reset the counters and start the worker thread.
StartScan ==
    /\ scan_pc = "idle"
    /\ scan_total' = 0
    /\ scan_done' = 0
    /\ network_status' = "Scanning..."
    /\ scan_pc' = "started"
    /\ discovered0' = discovered
    /\ published0' = published
    /\ peer_table' = {}
    /\ UNCHANGED <<envVars, fanVars, appVars, pubVars, db_log, rtVars>>
    /\ UNCHANGED <<discovered, published, calls, peers, cat_timeout, fut,
                   done_q, yielded>>

\* ScanListPeers without `if not peers: return` and `if item == 0`.
ScanListPeers_no_empty_check ==
    /\ scan_pc = "started"
    /\ calls' = calls \cup {"swarm_peers"}
    /\ \/ /\ scan_pc' = "raised"
          /\ UNCHANGED <<scan_total, network_status, peers, yielded, swarm_lines>>
       \/ /\ "never" \in RunEnds(AdapterTimeout.swarm_peers)
          /\ scan_pc' = "hung"
          /\ UNCHANGED <<scan_total, network_status, peers, yielded, swarm_lines>>
       \/ \E output \in SwarmOutputs :
            LET ps == swarm_peers(output)
                n == Cardinality(ps)
            IN  /\ peers' = ps
                /\ swarm_lines' = Len(output)
                /\ yielded' = <<[kind |-> "total", n |-> n]>>
                /\ scan_total' = n
                /\ network_status' = "Scanning n peer(s)..."
                /\ scan_pc' = "counted"
    /\ UNCHANGED <<envVars, fanVars, db_schema, contentVars, bootVars, scan_threads, cliVars,
                   pubVars,
                   db_log, rtVars>>
    /\ UNCHANGED <<dbVars, scan_done, cat_timeout, fut, done_q, peer_table>>

\* scan_peers_iter to its first yield, and _scan_worker's handling of the
\* total: ipfs.swarm_peers() raises, never returns, or the total is yielded.
ScanListPeers ==
    /\ scan_pc = "started"
    /\ calls' = calls \cup {"swarm_peers"}
    /\ \/ /\ scan_pc' = "raised"
          /\ UNCHANGED <<scan_total, network_status, peers, yielded, swarm_lines>>
       \/ /\ "never" \in RunEnds(AdapterTimeout.swarm_peers)
          /\ scan_pc' = "hung"
          /\ UNCHANGED <<scan_total, network_status, peers, yielded, swarm_lines>>
       \/ \E output \in SwarmOutputs :
            LET ps == swarm_peers(output)
                n == Cardinality(ps)
            IN  /\ peers' = ps
                /\ swarm_lines' = Len(output)
                /\ yielded' = <<[kind |-> "total", n |-> n]>>
                /\ scan_total' = n
                /\ IF n = 0
                   THEN /\ network_status' = "No peers found."
                        /\ scan_pc' = "no_peers"
                   ELSE /\ network_status' = "Scanning n peer(s)..."
                        /\ scan_pc' = "counted"
    /\ UNCHANGED <<envVars, fanVars, db_schema, contentVars, bootVars, scan_threads, cliVars,
                   pubVars,
                   db_log, rtVars>>
    /\ UNCHANGED <<dbVars, scan_done, cat_timeout, fut, done_q, peer_table>>

\* scan_peers_iter after the first yield: the timeout, then one future per
\* peer.
ScanDispatch ==
    /\ scan_pc = "counted"
    /\ cat_timeout' = IF Cardinality(peers) > MANY_PEERS_THRESHOLD
                      THEN FAST_CAT_TIMEOUT ELSE DEFAULT_CAT_TIMEOUT
    /\ fut' = [p \in peers |-> Pending]
    /\ scan_pc' = "submitted"
    /\ UNCHANGED <<envVars, fanVars, appVars, pubVars, db_log, rtVars>>
    /\ UNCHANGED <<dbVars, calls, scan_total, scan_done, network_status, peers,
                   done_q, yielded, peer_table>>

\* The orders in which a set or a list may hand over the elements of q.
Perms(q) ==
    {r \in [DOMAIN q -> {q[i] : i \in DOMAIN q}] :
        \A x \in {q[i] : i \in DOMAIN q} : \E i \in DOMAIN q : r[i] = x}

\* `for future in as_completed(futures)` begins: the futures that finished
\* while the others were being submitted are handed over first, in the order
\* of a set; the others follow in the order they finish.
ScanLoopStart ==
    /\ scan_pc = "submitted"
    /\ done_q' \in Perms(done_q)
    /\ scan_pc' = "running"
    /\ UNCHANGED <<envVars, fanVars, appVars, pubVars, db_log, rtVars>>
    /\ UNCHANGED <<dbVars, calls, scan_total, scan_done, network_status, peers,
                   cat_timeout, fut, yielded, peer_table>>

Running == {p \in peers : fut[p].st = "resolving"}

\* A pool thread runs _fetch_peer_index(p) to the submission of the
\* resolutions, or to its return without any.
FetchPeerIndex(p) ==
    /\ scan_pc \in {"submitted", "running", "raising"}
    /\ fut[p].st = "pending"
    /\ Cardinality(Running) < Min(MAX_WORKERS, Cardinality(peers))
    /\ calls' = calls \cup {"cat"}
    /\ \E o \in CatOutcomes :
         LET r == FetchIndexOf[o]
             f == [fut[p] EXCEPT !.cat = IF o.kind = "ok" THEN o.doc ELSE "failed"]
         IN  IF r.kind = "keys"
             THEN /\ fut' = [fut EXCEPT ![p] =
                               [f EXCEPT !.st = "resolving", !.keys = r.keys,
                                         !.todo = DictKeys(r.keys)]]
                  /\ UNCHANGED done_q
             ELSE /\ fut' = [fut EXCEPT ![p] =
                               [f EXCEPT !.st = "finished",
                                         !.ret = IF r.kind = "exc" THEN "exc"
                                                 ELSE "None"]]
                  /\ done_q' = Append(done_q, p)
    /\ UNCHANGED <<envVars, fanVars, appVars, pubVars, db_log, rtVars>>
    /\ UNCHANGED <<dbVars, scan_pc, scan_total, scan_done, network_status,
                   peers, cat_timeout, yielded, peer_table>>

\* The names whose resolution the inner pool has started: it runs at most
\* min(10, len(ipns_keys)) at a time, in submission order.
Started(f) ==
    LET n == Len(f.keys)
        finished == n - Cardinality(f.todo)
        upto == Min(n, Min(RESOLVE_WORKERS, n) + finished)
    IN  {f.keys[i][1] : i \in 1..upto} \cap f.todo

\* One resolution of peer p completes and its entry is appended; after the
\* last one _fetch_peer_index returns the result.
ResolveDone(p) ==
    /\ scan_pc \in {"submitted", "running", "raising"}
    /\ fut[p].st = "resolving"
    /\ calls' = calls \cup {"name_resolve"}
    /\ \E name \in Started(fut[p]), o \in ResolveOutcomes :
         LET f == fut[p]
             g == [f EXCEPT !.entries = Append(f.entries,
                                               peer_entry(p, f.keys, name, o)),
                            !.todo = f.todo \ {name},
                            !.outs = f.outs \cup {<<name, o.kind = "ok">>}]
         IN  IF g.todo = {}
             THEN /\ fut' = [fut EXCEPT ![p] = [g EXCEPT !.st = "finished",
                                                         !.ret = "result"]]
                  /\ done_q' = Append(done_q, p)
             ELSE /\ fut' = [fut EXCEPT ![p] = g]
                  /\ UNCHANGED done_q
    /\ UNCHANGED <<envVars, fanVars, appVars, pubVars, db_log, rtVars>>
    /\ UNCHANGED <<dbVars, scan_pc, scan_total, scan_done, network_status,
                   peers, cat_timeout, yielded, peer_table>>

\* The loop's writes for one result: the self-pointer row, then one row per
\* entry, each its own transaction; an upsert that raises ends them.
RECURSIVE persist_entries(_, _, _, _)
persist_entries(tbl, peer_id, entries, i) ==
    IF i > Len(entries) THEN [err |-> FALSE, tbl |-> tbl]
    ELSE LET r == upsert_discovered(tbl, peer_id, entries[i].ipns_name,
                                    entries[i].name)
         IN  IF r.err THEN r ELSE persist_entries(r.tbl, peer_id, entries, i + 1)

\* persist_result without the rows of the entries.
persist_result_self_only(tbl, peer_id, entries) ==
    upsert_discovered(tbl, peer_id, peer_id, NULL)

persist_result(tbl, peer_id, entries) ==
    LET r == upsert_discovered(tbl, peer_id, peer_id, NULL)
    IN  IF r.err THEN r ELSE persist_entries(r.tbl, peer_id, entries, 1)

\* FipsyApp._scan_add_result: one add_row per entry under the key
\* "peer_id:ipns_name"; DataTable.add_row raises DuplicateKey for a key the
\* table holds, and the rows added before it stay.
RECURSIVE add_rows(_, _, _)
add_rows(tbl, entries, i) ==
    IF i > Len(entries) THEN [err |-> FALSE, tbl |-> tbl]
    ELSE LET key == <<entries[i].peer_id, entries[i].ipns_name>>
         IN  IF key \in tbl THEN [err |-> TRUE, tbl |-> tbl]
             ELSE add_rows(tbl \cup {key}, entries, i + 1)

\* One turn of `for future in as_completed(futures)`, with _scan_worker's
\* handling of the result yielded.
ScanConsume ==
    /\ scan_pc = "running"
    /\ done_q # <<>>
    /\ LET p == Head(done_q)
           f == fut[p]
       IN  /\ done_q' = Tail(done_q)
           /\ IF f.ret = "exc"
              THEN /\ scan_pc' = "raising"
                   /\ UNCHANGED <<discovered, yielded, scan_done, peer_table>>
              ELSE IF f.ret = "None"
              THEN UNCHANGED <<scan_pc, discovered, yielded, scan_done,
                               peer_table>>
              ELSE LET w == persist_result(discovered, p, f.entries)
                   IN  /\ discovered' = w.tbl
                       /\ IF w.err
                          THEN /\ scan_pc' = "raising"
                               /\ UNCHANGED <<yielded, scan_done, peer_table>>
                          ELSE LET t == add_rows(peer_table, f.entries, 1)
                               IN  /\ yielded' = Append(yielded,
                                          [kind |-> "result", peer_id |-> p,
                                           entries |-> f.entries])
                                   /\ scan_done' = scan_done + 1
                                   /\ peer_table' = t.tbl
                                   /\ scan_pc' = IF t.err THEN "raising"
                                                 ELSE scan_pc
    /\ UNCHANGED <<envVars, fanVars, appVars, pubVars, db_log, rtVars>>
    /\ UNCHANGED <<published, discovered0, published0, calls, scan_total,
                   network_status, peers, cat_timeout, fut>>

AllFinished == \A p \in peers : fut[p].st = "finished"

\* An exception leaves the `with ThreadPoolExecutor` block once the pool has
\* run every future, and ends the generator and the worker.
ScanRaise ==
    /\ scan_pc = "raising"
    /\ AllFinished
    /\ scan_pc' = "raised"
    /\ UNCHANGED <<envVars, fanVars, appVars, pubVars, db_log, rtVars>>
    /\ UNCHANGED <<dbVars, calls, scan_total, scan_done, network_status, peers,
                   cat_timeout, fut, done_q, yielded, peer_table>>

\* The generator is exhausted: _scan_worker calls _scan_complete.
ScanComplete ==
    /\ scan_pc = "running"
    /\ AllFinished
    /\ done_q = <<>>
    /\ scan_pc' = "complete"
    /\ network_status' = "entries from peers"
    /\ UNCHANGED <<envVars, fanVars, appVars, pubVars, db_log, rtVars>>
    /\ UNCHANGED <<dbVars, calls, scan_total, scan_done, peers, cat_timeout,
                   fut, done_q, yielded, peer_table>>

InitPubVars ==
    /\ pub_pc = "idle"
    /\ publish_total = 0
    /\ publish_done = 0
    /\ pub_list = <<>>
    /\ pub_i = 1
    /\ keys = <<>>
    /\ published_keys = <<>>
    /\ pub_yielded = <<>>
    /\ scratch = "none"
    /\ index_json = NULL
    /\ self_index = NULL
    /\ svc_errors = {}

InitEnvFixed ==
    /\ local_keys = << <<<<"s", "e", "l", "f">>, <<"n">>>> >>
    /\ dirs = {}

InitFanVars ==
    /\ fo_pc = "idle"
    /\ fo_peers = 0
    /\ fo_cat_timeout = DEFAULT_CAT_TIMEOUT
    /\ fo_used = {}
    /\ fo_waiting = 0
    /\ fo_running = 0
    /\ fo_fetch = <<>>

InitContentVars ==
    /\ add_pc = "idle"
    /\ add_path = NULL
    /\ add_key = NULL
    /\ add_done = {}
    /\ adds = 0
    /\ browse_pc = "idle"

\* No scan of the command line runs.
InitCliVars ==
    /\ cli_pc = "idle"
    /\ cli_results = <<>>
    /\ cli_pin = FALSE
    /\ cli_i = 1
    /\ cli_j = 0
    /\ cli_pins = <<>>

\* The program is up: the check has found the binary and the daemon.
InitBootVars ==
    /\ boot_pc = "ready"
    /\ installed = TRUE
    /\ daemon = "up"
    /\ polls = 0
    /\ found = "available"

\* init_db has run: both tables exist.
Tables == {"discovered", "published"}

InitAppVars ==
    /\ db_schema = Tables
    /\ swarm_lines = 0
    /\ InitContentVars
    /\ scan_threads = <<>>
    /\ InitCliVars
    /\ InitBootVars

InitRtVars ==
    /\ rt_pc = "init"
    /\ rt_src = "none"
    /\ rt_parsed = [kind |-> "none"]

\* A scan starts over a store that earlier scans and adds have filled.
InitScan ==
    /\ InitStore
    /\ discovered # {}
    /\ calls = {}
    /\ InitScanVars
    /\ InitEnvFixed
    /\ InitPubVars
    /\ db_log = <<>>
    /\ InitRtVars
    /\ InitFanVars
    /\ InitAppVars

NextScan ==
    \/ StartScan
    \/ ScanListPeers
    \/ ScanDispatch
    \/ ScanLoopStart
    \/ \E p \in peers : FetchPeerIndex(p)
    \/ \E p \in peers : ResolveDone(p)
    \/ ScanConsume
    \/ ScanRaise
    \/ ScanComplete

SpecScan == InitScan /\ [][NextScan]_vars

(***************************************************************************)
(* db.list_published, commands.py _write_index_json                        *)
(***************************************************************************)

\* The characters of the model in code-point order (SQLite compares TEXT
\* byte by byte).
Alphabet ==
    <<"\n", " ", "\"", ",", "/", "0", "1", "2", "3", "4", "5", "6", "7", "8",
      "9", ":", "<", ">", "[", "\\", "]", "a", "b", "c", "e", "f", "h", "i",
      "k", "l", "m", "n", "p", "q", "r", "s", "u", "v", "x", "y", "z", "{",
      "}">>

CharRank(c) == CHOOSE i \in 1..Len(Alphabet) : Alphabet[i] = c

RECURSIVE StrLeq(_, _)
StrLeq(a, b) ==
    IF a = <<>> THEN TRUE
    ELSE IF b = <<>> THEN FALSE
    ELSE IF Head(a) = Head(b) THEN StrLeq(Tail(a), Tail(b))
    ELSE CharRank(Head(a)) < CharRank(Head(b))

\* db.list_published: SELECT path, name, added FROM published ORDER BY name,
\* each row as a dict of its columns.  Rows of equal name come in any order.
list_published(tbl) ==
    {l \in [1..Cardinality(tbl) -> tbl] :
        /\ \A i, j \in DOMAIN l : i # j => l[i] # l[j]
        /\ \A i, j \in DOMAIN l : i < j => StrLeq(l[i].name, l[j].name)}

\* _write_index_json: json.dumps({"ipns": keys}, indent=2)
write_index_json(ks) ==
    JsonDumps(JObj(<< <<Str_ipns,
                        JObj(JMembers(ks))>> >>),
              0)

(***************************************************************************)
(* tui/app.py action_publish_all, _publish_worker; tui/workers.py          *)
(* publish_all_iter                                                        *)
(***************************************************************************)

Paths == {<<"/", "x">>, <<"/", "y">>, <<"/", "z">>}

KeyNames == {<<"a">>, <<"b">>, <<"c">>}

\* The published tables add_directory can have built.
PublishedTables ==
    UNION {{{[path |-> q, name |-> f[q], added |-> 0] : q \in P} :
               f \in [P -> KeyNames]} : P \in SUBSET Paths}

Str_self == <<"s", "e", "l", "f">>

\* Key stores of the daemon: `self` always, the named keys unless deleted.
KeyStores ==
    {<< <<Str_self, <<"n">>>> >>,
     << <<Str_self, <<"n">>>>, <<<<"a">>, <<"k">>>> >>,
     << <<Str_self, <<"n">>>>, <<<<"a">>, <<"k">>>>, <<<<"b">>, <<"m">>>>,
        <<<<"c">>, <<"q">>>> >>}

\* FipsyApp.action_publish_all: reset the counters, start the worker thread.
StartPublish ==
    /\ pub_pc = "idle"
    /\ publish_total' = 0
    /\ publish_done' = 0
    /\ pub_pc' = "started"
    /\ discovered0' = discovered
    /\ published0' = published
    /\ UNCHANGED <<discovered, published, calls, scanVars, envVars, fanVars, appVars, db_log, rtVars, pub_list,
                   pub_i, keys, published_keys, pub_yielded, scratch,
                   index_json, self_index, svc_errors>>

\* PublishListPublished with ipfs.key_list() called ahead of the check for an
\* empty list.
PublishListPublished_keys_first ==
    /\ pub_pc = "started"
    /\ calls' = calls \cup {"key_list"}
    /\ \E l \in list_published(published) :
         /\ pub_list' = l
         /\ pub_yielded' = <<[kind |-> "total", n |-> Len(l)]>>
         /\ publish_total' = Len(l)
         /\ pub_pc' = IF Len(l) = 0 THEN "empty" ELSE "counted"
    /\ UNCHANGED <<dbVars, scanVars, envVars, fanVars, appVars, db_log, rtVars,
                   publish_done, pub_i, keys, published_keys, scratch,
                   index_json, self_index, svc_errors>>

\* PublishListPublished with the rows taken out of the table as they are
\* read.
PublishListPublished_consuming ==
    /\ pub_pc = "started"
    /\ \E l \in list_published(published) :
         /\ pub_list' = l
         /\ pub_yielded' = <<[kind |-> "total", n |-> Len(l)]>>
         /\ publish_total' = Len(l)
         /\ pub_pc' = IF Len(l) = 0 THEN "empty" ELSE "counted"
    /\ published' = {}
    /\ UNCHANGED <<discovered, discovered0, published0, calls, scanVars,
                   envVars, fanVars, appVars, db_log, rtVars, publish_done,
                   pub_i, keys, published_keys, scratch, index_json,
                   self_index, svc_errors>>

\* publish_all_iter to its first yield and its return on an empty list, with
\* _publish_worker's handling of the total.
PublishListPublished ==
    /\ pub_pc = "started"
    /\ \E l \in list_published(published) :
         /\ pub_list' = l
         /\ pub_yielded' = <<[kind |-> "total", n |-> Len(l)]>>
         /\ publish_total' = Len(l)
         /\ pub_pc' = IF Len(l) = 0 THEN "empty" ELSE "counted"
    /\ UNCHANGED <<dbVars, calls, scanVars, envVars, fanVars, appVars, db_log, rtVars,
                   publish_done, pub_i, keys, published_keys, scratch,
                   index_json, self_index, svc_errors>>

\* PublishKeyList with the scratch directory made ahead of the loop.
PublishKeyList_scratch_first ==
    /\ pub_pc = "counted"
    /\ calls' = calls \cup {"key_list"}
    /\ keys' = local_keys
    /\ pub_pc' = "loop"
    /\ scratch' = "exists"
    /\ UNCHANGED <<dbVars, scanVars, envVars, fanVars, appVars, db_log, rtVars, publish_total,
                   publish_done, pub_list, pub_i, published_keys, pub_yielded,
                   index_json, self_index, svc_errors>>

\* keys = ipfs.key_list(): the key store, or CalledProcessError, which
\* nothing catches, or no return at all.
PublishKeyList ==
    /\ pub_pc = "counted"
    /\ calls' = calls \cup {"key_list"}
    /\ \/ /\ keys' = local_keys
          /\ pub_pc' = "loop"
          /\ UNCHANGED svc_errors
       \/ /\ pub_pc' = "raised"
          /\ svc_errors' = svc_errors \cup {"key_list"}
          /\ UNCHANGED keys
       \/ /\ "never" \in RunEnds(AdapterTimeout.key_list)
          /\ pub_pc' = "hung"
          /\ UNCHANGED <<keys, svc_errors>>
    /\ UNCHANGED <<dbVars, scanVars, envVars, fanVars, appVars, db_log, rtVars, publish_total, publish_done,
                   pub_list, pub_i, published_keys, pub_yielded, scratch,
                   index_json, self_index>>

PublishResult(key, ipns_name, cid, error) ==
    [kind |-> "result", key |-> key, ipns_name |-> ipns_name, cid |-> cid,
     error |-> error]

\* The ways `ipfs add` and `ipfs name publish` end.
AddEnds == RunEnds(AdapterTimeout.add_directory)
NamePublishEnds == RunEnds(AdapterTimeout.name_publish)

\* One turn of `for entry in published`, with _publish_worker's count of the
\* outcome yielded.
publish_entry ==
    LET entry == pub_list[pub_i]
    IN  IF "key" \notin DOMAIN entry
        THEN \* entry["key"]: KeyError
             /\ pub_pc' = "raised"
             /\ UNCHANGED <<calls, publish_done, pub_i, published_keys,
                            pub_yielded, scratch, index_json, self_index,
                            svc_errors>>
        ELSE LET key == entry.key
                 path == entry.path
                 ipns_name == DictGet(keys, key, NULL)
                 passed == /\ pub_i' = pub_i + 1
                           /\ publish_done' = publish_done + 1
                           /\ UNCHANGED pub_pc
             IN  /\ UNCHANGED <<scratch, index_json, self_index>>
                 /\ IF ipns_name = NULL \/ ipns_name = <<>>
                    THEN /\ passed
                         /\ pub_yielded' = Append(pub_yielded,
                                PublishResult(key, <<>>, NULL, "IPNS name not found"))
                         /\ UNCHANGED <<calls, published_keys, svc_errors>>
                    ELSE IF path \notin dirs
                    THEN /\ passed
                         /\ pub_yielded' = Append(pub_yielded,
                                PublishResult(key, ipns_name, NULL, "Directory not found"))
                         /\ UNCHANGED <<calls, published_keys, svc_errors>>
                    ELSE \E a \in AddEnds, n \in NamePublishEnds :
                           /\ calls' = calls \cup {"add"}
                                         \cup (IF a = "ok" THEN {"name_publish"} ELSE {})
                           /\ IF a = "never" \/ (a = "ok" /\ n = "never")
                              THEN /\ pub_pc' = "hung"
                                   /\ UNCHANGED <<pub_i, publish_done, published_keys,
                                                  pub_yielded, svc_errors>>
                              ELSE /\ passed
                                   /\ svc_errors' = svc_errors
                                          \cup (IF a # "ok" THEN {"add"} ELSE {})
                                          \cup (IF a = "ok" /\ n # "ok"
                                                THEN {"name_publish"} ELSE {})
                                   /\ IF a = "ok" /\ n = "ok"
                                      THEN /\ published_keys' =
                                                  DictSet(published_keys, key, ipns_name)
                                           /\ pub_yielded' = Append(pub_yielded,
                                                  PublishResult(key, ipns_name, <<"c">>, NULL))
                                      ELSE /\ pub_yielded' = Append(pub_yielded,
                                                  PublishResult(key, ipns_name, NULL,
                                                                "Publish failed"))
                                           /\ UNCHANGED published_keys

\* After the loop: return when nothing was published, else make the scratch
\* directory.
publish_after_loop ==
    /\ IF published_keys = <<>>
       THEN /\ pub_pc' = "complete"
            /\ UNCHANGED scratch
       ELSE /\ pub_pc' = "index"
            /\ scratch' = "exists"
    /\ UNCHANGED <<calls, publish_done, pub_i, published_keys, pub_yielded,
                   index_json, self_index, svc_errors>>

rmtree_skipped(dir) == dir

\* finally: shutil.rmtree(discovery_dir, ignore_errors=True)
rmtree(dir) == "removed"

\* The try block of the discovery index and its finally: write the index,
\* add the directory, publish it under self; rmtree whenever the try block
\* is left, by its end or by an exception.  A call that never returns
\* leaves the worker inside the try block.
publish_index ==
    \E w \in {"ok", "OSError"}, a \in AddEnds, n \in NamePublishEnds :
        LET never == w = "ok" /\ (a = "never" \/ (a = "ok" /\ n = "never"))
        IN
        /\ index_json' = IF w = "ok" THEN write_index_json(published_keys)
                         ELSE index_json
        /\ calls' = calls \cup (IF w = "ok" THEN {"add"} ELSE {})
                          \cup (IF w = "ok" /\ a = "ok" THEN {"name_publish"} ELSE {})
        /\ self_index' = IF w = "ok" /\ a = "ok" /\ n = "ok"
                         THEN write_index_json(published_keys) ELSE self_index
        /\ svc_errors' = IF never THEN svc_errors ELSE svc_errors
               \cup (IF w # "ok" THEN {"write"} ELSE {})
               \cup (IF w = "ok" /\ a # "ok" THEN {"add"} ELSE {})
               \cup (IF w = "ok" /\ a = "ok" /\ n # "ok"
                     THEN {"name_publish"} ELSE {})
        /\ scratch' = IF never THEN scratch ELSE rmtree(scratch)
        /\ pub_pc' = IF never THEN "hung"
                     ELSE IF w = "ok" /\ a = "ok" /\ n = "ok" THEN "complete"
                     ELSE "raised"
        /\ UNCHANGED <<publish_done, pub_i, published_keys, pub_yielded>>

\* publish_all_iter from the loop on.
PublishBody ==
    /\ pub_pc \in {"loop", "index"}
    /\ IF pub_pc = "index" THEN publish_index
       ELSE IF pub_i <= Len(pub_list) THEN publish_entry
       ELSE publish_after_loop
    /\ UNCHANGED <<dbVars, scanVars, envVars, fanVars, appVars, db_log, rtVars, publish_total, pub_list, keys>>

InitPublish ==
    /\ published \in PublishedTables
    /\ published0 = published
    /\ discovered \in {s.d : s \in StoredBefore}
    /\ discovered0 = discovered
    /\ calls = {}
    /\ InitScanVars
    /\ local_keys \in KeyStores
    /\ dirs \in SUBSET Paths
    /\ InitPubVars
    /\ db_log = <<>>
    /\ InitRtVars
    /\ InitFanVars
    /\ InitAppVars

NextPublish ==
    \/ StartPublish
    \/ PublishListPublished
    \/ PublishKeyList
    \/ PublishBody

SpecPublish == InitPublish /\ [][NextPublish]_vars

(***************************************************************************)
(* The state store under any sequence of calls.                            *)
(***************************************************************************)

\* The most calls one behaviour makes on the store.
MaxDbOps == 3

DbNodes == {<<"p">>, <<"q">>}
DbKeys == {<<"p">>, <<"k">>}
DbNames == {NULL, <<"a">>, <<"z">>}
DbPaths == {<<"/", "x">>, <<"/", "y">>}
DbKeyNames == {<<"a">>, <<"b">>}

\* datetime.now(): the time of the next call.
Now == Len(db_log) + 1

\* init_db with the tables made anew on every call.
create_table_anew(schema, rows, t) ==
    [schema |-> schema \cup {t}, rows |-> {}]

\* CREATE TABLE IF NOT EXISTS t: a table that exists is left alone, rows
\* included; a table that does not exist is made, empty.
create_table_if_not_exists(schema, rows, t) ==
    [schema |-> schema \cup {t}, rows |-> IF t \in schema THEN rows ELSE {}]

\* init_db: both CREATE TABLE IF NOT EXISTS statements, then commit.
DbInitDb ==
    /\ Len(db_log) < MaxDbOps
    /\ LET d == create_table_if_not_exists(db_schema, discovered, "discovered")
           q == create_table_if_not_exists(d.schema, published, "published")
       IN  /\ discovered' = d.rows
           /\ published' = q.rows
           /\ db_schema' = q.schema
    /\ db_log' = Append(db_log, [op |-> "init_db"])
    /\ UNCHANGED <<discovered0, published0, calls, scanVars, envVars, fanVars,
                   pubVars, rtVars, swarm_lines, contentVars, bootVars,
                   scan_threads, cliVars>>

\* SELECT ... FROM discovered ORDER BY node_id, name: the rows, read.
list_discovered(tbl) == tbl

\* list_discovered and list_published: the tables are read.
DbList ==
    /\ Len(db_log) < MaxDbOps
    /\ db_schema = Tables
    /\ \E l \in list_published(published) :
         db_log' = Append(db_log, [op |-> "list", discovered |-> list_discovered(discovered),
                                   published |-> l])
    /\ UNCHANGED <<dbVars, calls, scanVars, envVars, fanVars, appVars, pubVars, rtVars>>

DbUpsertDiscovered ==
    /\ Len(db_log) < MaxDbOps
    /\ "discovered" \in db_schema
    /\ \E n \in DbNodes, k \in DbKeys, nm \in DbNames :
         LET r == upsert_discovered(discovered, n, k, nm)
         IN  /\ discovered' = r.tbl
             /\ db_log' = Append(db_log, [op |-> "upsert_discovered", node_id |-> n,
                                          ipns_key |-> k, name |-> nm])
    /\ UNCHANGED <<published, discovered0, published0, calls, scanVars, envVars, fanVars, appVars,
                   pubVars, rtVars>>

DbUpsertPublished ==
    /\ Len(db_log) < MaxDbOps
    /\ "published" \in db_schema
    /\ \E q \in DbPaths, nm \in DbKeyNames :
         /\ published' = upsert_published(published, q, nm, Now)
         /\ db_log' = Append(db_log, [op |-> "upsert_published", path |-> q,
                                      name |-> nm, added |-> Now])
    /\ UNCHANGED <<discovered, discovered0, published0, calls, scanVars, envVars, fanVars, appVars,
                   pubVars, rtVars>>

DbDeletePublished ==
    /\ Len(db_log) < MaxDbOps
    /\ "published" \in db_schema
    /\ \E q \in DbPaths :
         LET r == delete_published(published, q)
         IN  /\ published' = r.tbl
             /\ db_log' = Append(db_log, [op |-> "delete_published", path |-> q,
                                          deleted |-> r.deleted])
    /\ UNCHANGED <<discovered, discovered0, published0, calls, scanVars, envVars, fanVars, appVars,
                   pubVars, rtVars>>

\* The store as earlier runs left it, or a database file without tables.
InitDb ==
    /\ InitStore
    /\ calls = {}
    /\ InitScanVars
    /\ InitEnvFixed
    /\ InitPubVars
    /\ db_log = <<>>
    /\ InitRtVars
    /\ InitFanVars
    /\ db_schema \in {Tables, {}}
    /\ db_schema = {} => (discovered = {} /\ published = {})
    /\ swarm_lines = 0
    /\ InitContentVars
    /\ scan_threads = <<>>
    /\ InitCliVars
    /\ InitBootVars

NextDb ==
    \/ DbInitDb
    \/ DbList
    \/ DbUpsertDiscovered
    \/ DbUpsertPublished
    \/ DbDeletePublished

SpecDb == InitDb /\ [][NextDb]_vars

(***************************************************************************)
(* The discovery index document, written and read back.                    *)
(***************************************************************************)

\* The most entries of a pointer map.
MaxIndexEntries == 2

RtNames ==
    {<<"a">>, <<"b">>, <<"\"">>, <<"\\">>, <<"a", "\"">>, <<"\\", "n">>,
     <<"\n">>, Str_ipns}

RtPointers == {<<"k">>, <<"m">>}

RECURSIVE DictsUpTo(_)
DictsUpTo(n) ==
    IF n = 0 THEN {<<>>}
    ELSE LET shorter == DictsUpTo(n - 1)
         IN  shorter \cup
             {Append(m, <<k, v>>) : m \in {d \in shorter : Len(d) = n - 1},
                                    k \in RtNames, v \in RtPointers}

\* The pointer maps: key names distinct.
RtMaps ==
    {m \in DictsUpTo(MaxIndexEntries) :
        \A i, j \in DOMAIN m : i # j => m[i][1] # m[j][1]}

\* publish_all_iter's discovery index: only a non-empty map is written.
RtWriteIndex ==
    /\ rt_pc = "init"
    /\ published_keys # <<>>
    /\ index_json' = write_index_json(published_keys)
    /\ rt_src' = "publish"
    /\ rt_pc' = "written"
    /\ UNCHANGED <<dbVars, calls, scanVars, envVars, fanVars, appVars, db_log, pub_pc,
                   publish_total, publish_done, pub_list, pub_i, keys,
                   published_keys, pub_yielded, scratch, self_index,
                   svc_errors, rt_parsed>>

\* The index of a peer running other software: the same map beside an unknown
\* top-level key, or no "ipns" key at all.
RtForeignIndex ==
    /\ rt_pc = "init"
    /\ \E shape \in {"extra_first", "extra_last", "no_ipns"} :
         LET extra == <<<<"v">>, JArr(<<JNum(<<"1">>), JNull>>)>>
             ipns == <<Str_ipns, JObj(JMembers(published_keys))>>
         IN  /\ index_json' =
                    JsonDumps(JObj(CASE shape = "extra_first" -> <<extra, ipns>>
                                     [] shape = "extra_last" -> <<ipns, extra>>
                                     [] shape = "no_ipns" -> <<extra>>), 0)
             /\ rt_src' = shape
    /\ rt_pc' = "written"
    /\ UNCHANGED <<dbVars, calls, scanVars, envVars, fanVars, appVars, db_log, pub_pc,
                   publish_total, publish_done, pub_list, pub_i, keys,
                   published_keys, pub_yielded, scratch, self_index,
                   svc_errors, rt_parsed>>

\* `ipfs cat` of the document (run_ipfs strips its output), then the parser.
RtParse ==
    /\ rt_pc = "written"
    /\ rt_parsed' = parse_index(Strip(index_json))
    /\ rt_pc' = "parsed"
    /\ UNCHANGED <<dbVars, calls, scanVars, envVars, fanVars, appVars, db_log, pubVars, rt_src>>

InitIndex ==
    /\ InitStore
    /\ calls = {}
    /\ InitScanVars
    /\ InitEnvFixed
    /\ pub_pc = "idle"
    /\ publish_total = 0
    /\ publish_done = 0
    /\ pub_list = <<>>
    /\ pub_i = 1
    /\ keys = <<>>
    /\ published_keys \in RtMaps
    /\ pub_yielded = <<>>
    /\ scratch = "none"
    /\ index_json = NULL
    /\ self_index = NULL
    /\ svc_errors = {}
    /\ db_log = <<>>
    /\ InitRtVars
    /\ InitFanVars
    /\ InitAppVars

NextIndex ==
    \/ RtWriteIndex
    \/ RtForeignIndex
    \/ RtParse

SpecIndex == InitIndex /\ [][NextIndex]_vars

(***************************************************************************)
(* The discovery index step of publish_all_iter on its own: the code from  *)
(* `if not published_keys` on.  The loop before it raises on every row     *)
(* list_published returns (entry["key"]), so no behaviour of SpecPublish   *)
(* enters this code; here it is entered with the loop over and with each   *)
(* map the loop's code can leave in published_keys, the empty one too.     *)
(***************************************************************************)

InitIndexStep ==
    /\ InitStore
    /\ calls = {"key_list"}
    /\ InitScanVars
    /\ InitEnvFixed
    /\ pub_pc = "loop"
    /\ publish_total = 0
    /\ publish_done = 0
    /\ pub_list = <<>>
    /\ pub_i = 1
    /\ keys = local_keys
    /\ published_keys \in RtMaps
    /\ pub_yielded = <<>>
    /\ scratch = "none"
    /\ index_json = NULL
    /\ self_index = NULL
    /\ svc_errors = {}
    /\ db_log = <<>>
    /\ InitRtVars
    /\ InitFanVars
    /\ InitAppVars

NextIndexStep ==
    \/ PublishBody

SpecIndexStep == InitIndexStep /\ [][NextIndexStep]_vars

(***************************************************************************)
(* The fan-out of a scan: scan_peers_iter's pool of fetches and the pool   *)
(* of resolutions inside each fetch, for swarms larger than the pools.     *)
(* Peers are counted, not named.  A peer whose index lists no pointer (or  *)
(* that serves no index) costs one fetch and no resolution; the fetch of   *)
(* a peer whose index lists pointers is followed step by step in fo_fetch, *)
(* and a swarm holds at most one such peer.                                *)
(***************************************************************************)

\* The most peers a swarm reports.
MaxFanOut == 21
\* The most pointers an index lists.
MaxPointers == 11
PeerCounts == {1} \cup (MANY_PEERS_THRESHOLD .. MaxFanOut)
PointerCounts == {1, RESOLVE_WORKERS, MaxPointers}

many_peers_at_threshold(n) == n >= MANY_PEERS_THRESHOLD

\* scan_peers_iter: many_peers = len(peers) > MANY_PEERS_THRESHOLD
many_peers(n) == n > MANY_PEERS_THRESHOLD

\* scan_peers_iter: cat_timeout
cat_timeout_for(n) ==
    IF many_peers(n) THEN FAST_CAT_TIMEOUT ELSE DEFAULT_CAT_TIMEOUT

\* scan_peers_iter: ThreadPoolExecutor(max_workers=min(MAX_WORKERS, len(peers)))
fetch_pool_size(n) == Min(MAX_WORKERS, n)

resolve_pool_size_uncapped(k) == k

\* _fetch_peer_index: ThreadPoolExecutor(max_workers=min(10, len(ipns_keys)))
resolve_pool_size(k) == Min(RESOLVE_WORKERS, k)

\* A fetch of a peer whose index lists k pointers: waiting in the pool's
\* queue, reading the index, resolving (q resolutions queued, f running),
\* or done.
Fetch(st, k, q, f) == [st |-> st, k |-> k, q |-> q, f |-> f]

FoActive == {i \in DOMAIN fo_fetch : fo_fetch[i].st \in {"cat", "resolving"}}

\* The fetches a pool thread is running.
FoFetchesRunning == fo_running + Cardinality(FoActive)

RECURSIVE FoInFlightFrom(_)
FoInFlightFrom(i) ==
    IF i > Len(fo_fetch) THEN 0 ELSE fo_fetch[i].f + FoInFlightFrom(i + 1)

\* The resolutions running, over all fetches.
FoInFlight == FoInFlightFrom(1)

\* scan_peers_iter up to the submission of every fetch.
FoSubmit ==
    /\ fo_pc = "idle"
    /\ \E n \in PeerCounts : \E h \in {0, 1} :
       \E ks \in [1 .. h -> PointerCounts] :
          /\ fo_peers' = n
          /\ fo_cat_timeout' = cat_timeout_for(n)
          /\ fo_waiting' = n - h
          /\ fo_fetch' = [i \in 1 .. h |-> Fetch("waiting", ks[i], 0, 0)]
    /\ fo_pc' = "submitted"
    /\ UNCHANGED <<fo_used, fo_running>>
    /\ UNCHANGED <<dbVars, calls, scanVars, envVars, pubVars, db_log, rtVars, appVars>>

\* A pool thread takes the fetch of a peer without pointers and calls
\* ipfs.cat_path with the timeout the fetch was submitted with.
FoStartPlain ==
    /\ fo_pc = "submitted"
    /\ fo_waiting > 0
    /\ FoFetchesRunning < fetch_pool_size(fo_peers)
    /\ fo_waiting' = fo_waiting - 1
    /\ fo_running' = fo_running + 1
    /\ fo_used' = fo_used \cup {fo_cat_timeout}
    /\ UNCHANGED <<fo_pc, fo_peers, fo_cat_timeout, fo_fetch>>
    /\ UNCHANGED <<dbVars, calls, scanVars, envVars, pubVars, db_log, rtVars, appVars>>

\* _fetch_peer_index returns None: no index, or no pointers in it.
FoEndPlain ==
    /\ fo_pc = "submitted"
    /\ fo_running > 0
    /\ fo_running' = fo_running - 1
    /\ UNCHANGED <<fo_pc, fo_peers, fo_cat_timeout, fo_used, fo_waiting, fo_fetch>>
    /\ UNCHANGED <<dbVars, calls, scanVars, envVars, pubVars, db_log, rtVars, appVars>>

\* A pool thread takes the fetch of a peer whose index lists pointers.
FoStartFetch(i) ==
    /\ fo_pc = "submitted"
    /\ fo_fetch[i].st = "waiting"
    /\ FoFetchesRunning < fetch_pool_size(fo_peers)
    /\ fo_fetch' = [fo_fetch EXCEPT ![i].st = "cat"]
    /\ fo_used' = fo_used \cup {fo_cat_timeout}
    /\ UNCHANGED <<fo_pc, fo_peers, fo_cat_timeout, fo_waiting, fo_running>>
    /\ UNCHANGED <<dbVars, calls, scanVars, envVars, pubVars, db_log, rtVars, appVars>>

\* The index is read; _fetch_peer_index submits one resolution per pointer.
FoSubmitResolves(i) ==
    /\ fo_pc = "submitted"
    /\ fo_fetch[i].st = "cat"
    /\ fo_fetch' = [fo_fetch EXCEPT ![i].st = "resolving", ![i].q = fo_fetch[i].k]
    /\ UNCHANGED <<fo_pc, fo_peers, fo_cat_timeout, fo_used, fo_waiting, fo_running>>
    /\ UNCHANGED <<dbVars, calls, scanVars, envVars, pubVars, db_log, rtVars, appVars>>

\* A thread of the fetch's own pool takes a queued resolution.
FoStartResolve(i) ==
    /\ fo_pc = "submitted"
    /\ fo_fetch[i].st = "resolving"
    /\ fo_fetch[i].q > 0
    /\ fo_fetch[i].f < resolve_pool_size(fo_fetch[i].k)
    /\ fo_fetch' = [fo_fetch EXCEPT ![i].q = @ - 1, ![i].f = @ + 1]
    /\ UNCHANGED <<fo_pc, fo_peers, fo_cat_timeout, fo_used, fo_waiting, fo_running>>
    /\ UNCHANGED <<dbVars, calls, scanVars, envVars, pubVars, db_log, rtVars, appVars>>

\* _resolve_key returns, with a path or with None.
FoEndResolve(i) ==
    /\ fo_pc = "submitted"
    /\ fo_fetch[i].st = "resolving"
    /\ fo_fetch[i].f > 0
    /\ fo_fetch' = [fo_fetch EXCEPT ![i].f = @ - 1]
    /\ UNCHANGED <<fo_pc, fo_peers, fo_cat_timeout, fo_used, fo_waiting, fo_running>>
    /\ UNCHANGED <<dbVars, calls, scanVars, envVars, pubVars, db_log, rtVars, appVars>>

\* Every resolution of the fetch is in: _fetch_peer_index returns its result.
FoEndFetch(i) ==
    /\ fo_pc = "submitted"
    /\ fo_fetch[i].st = "resolving"
    /\ fo_fetch[i].q = 0
    /\ fo_fetch[i].f = 0
    /\ fo_fetch' = [fo_fetch EXCEPT ![i].st = "done"]
    /\ UNCHANGED <<fo_pc, fo_peers, fo_cat_timeout, fo_used, fo_waiting, fo_running>>
    /\ UNCHANGED <<dbVars, calls, scanVars, envVars, pubVars, db_log, rtVars, appVars>>

\* Every fetch is in: the pool of scan_peers_iter shuts down.
FoShutdown ==
    /\ fo_pc = "submitted"
    /\ fo_waiting = 0
    /\ fo_running = 0
    /\ \A i \in DOMAIN fo_fetch : fo_fetch[i].st = "done"
    /\ fo_pc' = "done"
    /\ UNCHANGED <<fo_peers, fo_cat_timeout, fo_used, fo_waiting, fo_running, fo_fetch>>
    /\ UNCHANGED <<dbVars, calls, scanVars, envVars, pubVars, db_log, rtVars, appVars>>

InitFanOut ==
    /\ discovered = {}
    /\ published = {}
    /\ discovered0 = {}
    /\ published0 = {}
    /\ calls = {}
    /\ InitScanVars
    /\ InitEnvFixed
    /\ InitPubVars
    /\ db_log = <<>>
    /\ InitRtVars
    /\ InitFanVars
    /\ InitAppVars

NextFanOut ==
    \/ FoSubmit
    \/ FoStartPlain
    \/ FoEndPlain
    \/ \E i \in DOMAIN fo_fetch : FoStartFetch(i)
    \/ \E i \in DOMAIN fo_fetch : FoSubmitResolves(i)
    \/ \E i \in DOMAIN fo_fetch : FoStartResolve(i)
    \/ \E i \in DOMAIN fo_fetch : FoEndResolve(i)
    \/ \E i \in DOMAIN fo_fetch : FoEndFetch(i)
    \/ FoShutdown

SpecFanOut == InitFanOut /\ [][NextFanOut]_vars

(***************************************************************************)
(* Properties of the scan.                                                 *)
(***************************************************************************)

Range(q) == {q[i] : i \in DOMAIN q}

RowsOf(tbl, p) == {r \in tbl : r.node_id = p}

\* The results the scan has yielded for peer p.
YieldedFor(p) ==
    {i \in DOMAIN yielded : yielded[i].kind = "result" /\ yielded[i].peer_id = p}

\* The loop has taken p's future from as_completed.
Consumed(p) == fut[p].st = "finished" /\ p \notin Range(done_q)

\* The store holds p's self-pointer row and a row for every pointer p's index
\* declares.
Recorded(p) ==
    /\ \E r \in discovered : r.node_id = p /\ r.ipns_key = p
    /\ \A i \in DOMAIN fut[p].keys :
         \E r \in discovered : r.node_id = p /\ r.ipns_key = fut[p].keys[i][2].s

ValidDocs == {"one", "two", "same"}

\* A peer whose index fetch timed out or failed gets the result None, adds
\* no row and no result, and is never the cause of an abort: a scan is
\* aborted by a document that is no object or by a result with two entries
\* of one pointer.  Every peer with a valid non-empty index whose future the
\* loop has taken is recorded and yielded once, and a completed scan has
\* taken every future.
FailedFetchIsolated ==
    /\ \A p \in DOMAIN fut :
         (fut[p].st = "finished" /\ fut[p].cat = "failed") =>
             /\ fut[p].ret = "None"
             /\ RowsOf(discovered, p) = RowsOf(discovered0, p)
             /\ YieldedFor(p) = {}
    /\ (scan_pc \in {"raising", "raised"} /\ DOMAIN fut # {}) =>
           \E p \in DOMAIN fut :
               /\ fut[p].ret \in {"exc", "result"}
               /\ fut[p].cat \in {"arr", "same"}
    /\ \A p \in DOMAIN fut :
         (fut[p].cat \in ValidDocs /\ Consumed(p)) =>
             /\ Recorded(p)
             /\ Cardinality(YieldedFor(p)) = 1
    /\ scan_pc = "complete" => \A p \in DOMAIN fut : Consumed(p)

\* The scan has left scan_peers_iter after dispatching its fetches, by
\* exhaustion or by an exception.
ScanEnded == scan_pc \in {"complete", "raised"} /\ DOMAIN fut # {}

\* C1 as claimed: in a scan over any set of peers, a peer whose index fetch
\* timed out or failed adds no row and no result, and when the scan has ended
\* every peer that served a valid non-empty index has its self-pointer row
\* and its declared-pointer rows stored and its result yielded once.
C1_OtherPeersRecorded ==
    /\ \A p \in DOMAIN fut :
         (fut[p].st = "finished" /\ fut[p].cat = "failed") =>
             /\ RowsOf(discovered, p) = RowsOf(discovered0, p)
             /\ YieldedFor(p) = {}
    /\ ScanEnded =>
         \A p \in DOMAIN fut :
             fut[p].cat \in ValidDocs =>
                 /\ Recorded(p)
                 /\ Cardinality(YieldedFor(p)) = 1

EmptyOrMalformed == {"garbage", "arr", "noipns", "empty"}

\* C2 as claimed: a peer serving a document that is no JSON, no JSON object,
\* an object without "ipns" or with an empty "ipns" map gets no result and
\* no error, and the scan is not aborted.
C2_MalformedIndexSkipped ==
    /\ \A p \in DOMAIN fut :
         (fut[p].st = "finished" /\ fut[p].cat \in EmptyOrMalformed) =>
             fut[p].ret = "None"
    /\ DOMAIN fut # {} => scan_pc \notin {"raising", "raised"}

\* C3: a peer that declared pointers ends with a result, whatever its
\* resolutions did; the result holds exactly one entry per declared name,
\* with that name's pointer, and the entry's content id is non-null exactly
\* when its own resolution succeeded.
C3_OneEntryPerName ==
    \A p \in DOMAIN fut :
        LET f == fut[p]
        IN  /\ (f.st = "finished" /\ f.keys # <<>>) => f.ret = "result"
            /\ f.ret = "result" =>
                 /\ Len(f.entries) = Len(f.keys)
                 /\ \A i \in DOMAIN f.keys :
                      LET es == {j \in DOMAIN f.entries :
                                    f.entries[j].name = f.keys[i][1]}
                      IN  /\ Cardinality(es) = 1
                          /\ \A j \in es :
                               /\ f.entries[j].peer_id = p
                               /\ f.entries[j].ipns_name = f.keys[i][2].s
                               /\ (f.entries[j].cid # NULL) <=>
                                      (<<f.keys[i][1], TRUE>> \in f.outs)
                               /\ (f.entries[j].cid = NULL) <=>
                                      (<<f.keys[i][1], FALSE>> \in f.outs)

\* C3 witness: of the two declared pointers the first resolved and the second
\* did not, and the result has both entries.
C3_Witness ==
    \E p \in DOMAIN fut :
        /\ fut[p].ret = "result"
        /\ fut[p].cat = "two"
        /\ fut[p].outs = {<<<<"a">>, TRUE>>, <<<<"b">>, FALSE>>}
        /\ \E i, j \in DOMAIN fut[p].entries :
             /\ fut[p].entries[i].name = <<"a">>
             /\ fut[p].entries[i].cid = <<"c">>
             /\ fut[p].entries[j].name = <<"b">>
             /\ fut[p].entries[j].ipns_name = <<"m">>
             /\ fut[p].entries[j].cid = NULL

\* C8: a scan that lists no peer ends in "No peers found." with a total of
\* zero, no future, no fetch or resolution call, no result, and both tables
\* as they were when the scan started; and a scan that lists no peer ends
\* nowhere else.
C8_NoPeersNoWrites ==
    /\ scan_pc = "no_peers" =>
         /\ network_status = "No peers found."
         /\ scan_total = 0
         /\ yielded = <<[kind |-> "total", n |-> 0]>>
         /\ DOMAIN fut = {}
         /\ calls \cap {"cat", "name_resolve"} = {}
         /\ discovered = discovered0
         /\ published = published0
    /\ (yielded # <<>> /\ peers = {}) => scan_pc = "no_peers"

\* C8 witness: the no-peers state over a store that held rows.
C8_Witness ==
    /\ scan_pc = "no_peers"
    /\ discovered # {}
    /\ published # {}

(***************************************************************************)
(* Properties of publish-all.                                              *)
(***************************************************************************)

\* The outcomes publish_all_iter has yielded, without the total.
Outcomes == SubSeq(pub_yielded, 2, Len(pub_yielded))

\* The run has left publish_all_iter, by return or by an exception.
PublishEnded == pub_pc \in {"empty", "complete", "raised"}

\* C4 as claimed: over N >= 1 tracked entries the total N comes first; while
\* the loop runs there is one outcome for each entry it has passed; and a run
\* whose key listing succeeded ends with exactly one outcome per tracked
\* entry, in the order of the list, the loop never being aborted.
C4_OneOutcomePerEntry ==
    /\ Len(pub_list) >= 1 =>
         pub_yielded[1] = [kind |-> "total", n |-> Len(pub_list)]
    /\ pub_pc = "loop" => Len(Outcomes) = pub_i - 1
    /\ (PublishEnded /\ Len(pub_list) >= 1 /\ "key_list" \notin svc_errors) =>
         /\ Len(Outcomes) = Len(pub_list)
         /\ \A i \in DOMAIN pub_list : Outcomes[i].key = pub_list[i].name

\* The tracked entries publish-all must succeed on when no service call
\* fails: the naming key exists and the directory exists.
Publishable ==
    {i \in DOMAIN pub_list :
        DictHas(keys, pub_list[i].name) /\ pub_list[i].path \in dirs}

\* The keys of the success outcomes of this run.
SuccessKeys ==
    {Outcomes[i].key : i \in {j \in DOMAIN Outcomes : Outcomes[j].error = NULL}}

\* C5 as claimed: a run in which no service call failed ends with a success
\* outcome for exactly the tracked entries whose key and directory exist and
\* a not-found outcome for each other entry, and, when there is a success,
\* with an index.json whose map holds exactly the successful keys and their
\* pointers; and whenever index.json is written its map is that of the
\* success outcomes.
C5_IndexIsSuccessSet ==
    /\ index_json # NULL =>
         /\ published_keys # <<>>
         /\ DictKeys(published_keys) = SuccessKeys
         /\ parse_index(Strip(index_json)) =
                [kind |-> "val", v |-> JObj(JMembers(published_keys))]
    /\ (PublishEnded /\ Len(pub_list) >= 1 /\ svc_errors = {}) =>
         /\ SuccessKeys = {pub_list[i].name : i \in Publishable}
         /\ Len(Outcomes) = Len(pub_list)
         /\ DictKeys(published_keys) = SuccessKeys
         /\ Publishable # {} => index_json # NULL

\* C9: publish-all over no tracked directory ends in the empty state with a
\* total of zero as the only thing yielded, no call to the content service,
\* no scratch directory and no index document; and it ends nowhere else.
C9_NothingToPublish ==
    /\ pub_pc = "empty" =>
         /\ publish_total = 0
         /\ pub_yielded = <<[kind |-> "total", n |-> 0]>>
         /\ calls = {}
         /\ scratch = "none"
         /\ index_json = NULL
         /\ self_index = NULL
         /\ published = published0
    /\ (pub_yielded # <<>> /\ published = {}) => pub_pc = "empty"

\* C9 witness: the empty state reached with keys in the key store and
\* directories on disk.
C9_Witness ==
    /\ pub_pc = "empty"
    /\ published = {}
    /\ Len(local_keys) > 1
    /\ dirs # {}

(***************************************************************************)
(* Properties of the state store.                                          *)
(***************************************************************************)

Max(S) == CHOOSE x \in S : \A y \in S : y <= x

\* The positions in the log of the upserts of the discovered row (n, k).
UpsertsOfPointer(n, k) ==
    {i \in DOMAIN db_log :
        /\ db_log[i].op = "upsert_discovered"
        /\ db_log[i].node_id = n
        /\ db_log[i].ipns_key = k}

\* The positions in the log of the calls on the published row of path q.
CallsOnPath(q) ==
    {i \in DOMAIN db_log :
        /\ db_log[i].op \in {"upsert_published", "delete_published"}
        /\ db_log[i].path = q}

\* C6: after any sequence of calls the discovered table has at most one row
\* per (node_id, ipns_key); the row of a pair that was upserted carries the
\* name of the latest upsert of that pair, NULL included, and the rows of a
\* pair never upserted are as they were.
C6_LatestNamePerPointer ==
    \A n \in DbNodes, k \in DbKeys :
        LET rows == {r \in discovered : r.node_id = n /\ r.ipns_key = k}
            ups == UpsertsOfPointer(n, k)
        IN  /\ Cardinality(rows) <= 1
            /\ IF ups # {}
               THEN rows = {Row(n, k, db_log[Max(ups)].name)}
               ELSE rows = {r \in discovered0 : r.node_id = n /\ r.ipns_key = k}

\* C6 witness: a pair upserted with a name and then with NULL holds the one
\* row with the NULL name, beside the row of another pair.
C6_Witness ==
    \E n \in DbNodes, k \in DbKeys :
        LET ups == UpsertsOfPointer(n, k)
        IN  /\ Cardinality(ups) >= 2
            /\ \E i \in ups : i < Max(ups) /\ db_log[i].name = <<"a">>
            /\ db_log[Max(ups)].name = NULL
            /\ Row(n, k, NULL) \in discovered
            /\ Cardinality(discovered) >= 2

\* C7: after any sequence of calls the published table has at most one row
\* per path; a path whose latest call was an upsert has the row with that
\* upsert's name and time, a path whose latest call was a delete has no row,
\* and the rows of a path no call touched are as they were.
C7_LatestKeyPerPath ==
    \A q \in DbPaths :
        LET rows == {r \in published : r.path = q}
            cs == CallsOnPath(q)
        IN  /\ Cardinality(rows) <= 1
            /\ IF cs = {} THEN rows = {r \in published0 : r.path = q}
               ELSE LET last == db_log[Max(cs)]
                    IN  IF last.op = "upsert_published"
                        THEN rows = {[path |-> q, name |-> last.name,
                                      added |-> last.added]}
                        ELSE rows = {}

\* C7 witness: a path upserted twice under different keys holds the one row
\* with the second key and the second time.
C7_Witness ==
    \E q \in DbPaths :
        LET cs == CallsOnPath(q)
        IN  /\ Cardinality(cs) >= 2
            /\ \A i \in cs : db_log[i].op = "upsert_published"
            /\ \E i \in cs : i < Max(cs) /\ db_log[i].name # db_log[Max(cs)].name
            /\ {r \in published : r.path = q} =
                   {[path |-> q, name |-> db_log[Max(cs)].name,
                     added |-> Max(cs)]}

(***************************************************************************)
(* Properties of the discovery index document.                             *)
(***************************************************************************)

\* C10: the parser gives back, entry for entry, the map the publisher wrote
\* as index.json; it gives the same map when the document has unknown
\* top-level keys before or after "ipns"; and it gives the empty map for a
\* document that has no "ipns" key.
C10_IndexRoundTrip ==
    rt_pc = "parsed" =>
        /\ rt_src \in {"publish", "extra_first", "extra_last"} =>
             rt_parsed = [kind |-> "val", v |-> JObj(JMembers(published_keys))]
        /\ rt_src = "no_ipns" =>
             rt_parsed = [kind |-> "val", v |-> JObj(<<>>)]

\* C10 witness: a written map of two entries, one of them named with a double
\* quote, read back as it was.
C10_Witness ==
    /\ rt_pc = "parsed"
    /\ rt_src = "publish"
    /\ Len(published_keys) = 2
    /\ \E i \in DOMAIN published_keys : published_keys[i][1] = <<"a", "\"">>
    /\ rt_parsed.kind = "val"
    /\ rt_parsed.v.m = JMembers(published_keys)

(***************************************************************************)
(* Properties of the order of a scan.                                      *)
(***************************************************************************)

HasResult(p) == fut[p].ret = "result"

\* The finished futures that hold a result and that the loop has yet to
\* take, in the order as_completed will hand them over.
ResultsQueue == SelectSeq(done_q, HasResult)

\* C11 as claimed: the first thing a scan yields is the total, nothing else
\* it yields is a total, and no fetch is dispatched before it; and the
\* results come in completion order: a future that finishes with a result
\* goes to the end of the queue of results to hand over, the loop yields the
\* result at its head, and the queue is never reordered.
C11_TotalFirstThenCompletionOrder ==
    /\ [](/\ yielded = <<>> => (DOMAIN fut = {} /\ "cat" \notin calls)
          /\ yielded # <<>> => yielded[1] = [kind |-> "total", n |-> scan_total]
          /\ \A i \in DOMAIN yielded : i > 1 => yielded[i].kind = "result")
    /\ [][/\ ResultsQueue' # ResultsQueue =>
                \/ ResultsQueue # <<>> /\ ResultsQueue' = Tail(ResultsQueue)
                \/ \E p \in peers : ResultsQueue' = Append(ResultsQueue, p)
          /\ (yielded # <<>> /\ yielded' # yielded) =>
                /\ ResultsQueue # <<>>
                /\ yielded'[Len(yielded')].peer_id = Head(ResultsQueue)]_vars

\* The name the store must hold for pointer k of a result: that of the last
\* entry with this pointer, and NULL for a self-pointer no entry declares.
LastNameOf(entries, k) ==
    LET js == {j \in DOMAIN entries : entries[j].ipns_name = k}
    IN  IF js = {} THEN NULL ELSE entries[Max(js)].name

\* C12: for every result the scan has emitted the store holds the peer's
\* self-pointer row and a row for the pointer of each entry of the result,
\* with the name that entry gave it; and the rows of a peer for which no
\* result was emitted are those the store held when the scan started.
C12_PersistedBeforeEmitted ==
    /\ \A i \in DOMAIN yielded :
         yielded[i].kind = "result" =>
             LET r == yielded[i]
                 ks == {r.peer_id} \cup
                       {r.entries[j].ipns_name : j \in DOMAIN r.entries}
             IN  \A k \in ks :
                     Row(r.peer_id, k, LastNameOf(r.entries, k)) \in discovered
    /\ \A p \in PeerIds :
         (p \notin DOMAIN fut \/ YieldedFor(p) = {}) =>
             RowsOf(discovered, p) = RowsOf(discovered0, p)

\* C12 witness: a result of two entries has been emitted and its three rows
\* are stored, while a peer whose future ended without a result and was
\* taken by the loop has the rows it had.
C12_Witness ==
    \E p, q \in DOMAIN fut :
        /\ Consumed(p)
        /\ fut[p].ret = "None"
        /\ RowsOf(discovered, p) = RowsOf(discovered0, p)
        /\ RowsOf(discovered0, p) # {}
        /\ fut[q].cat = "two"
        /\ YieldedFor(q) # {}
        /\ Cardinality(RowsOf(discovered, q)) = 3

\* The number of entries in the results the scan has emitted.
RECURSIVE EntriesEmitted(_)
EntriesEmitted(i) ==
    IF i > Len(yielded) THEN 0
    ELSE (IF yielded[i].kind = "result" THEN Len(yielded[i].entries) ELSE 0)
         + EntriesEmitted(i + 1)

\* C13 as claimed: a scan over a non-empty peer set stops nowhere but at its
\* completion event; the event comes when every dispatched fetch has
\* finished and been taken by the loop, and the count it reports, the rows of
\* the peer table, is the number of entries in the results emitted.
C13_ScanReachesCompletion ==
    /\ (peers # {} /\ yielded # <<>> /\ ~ENABLED NextScan) =>
           scan_pc = "complete"
    /\ scan_pc = "complete" =>
         /\ AllFinished
         /\ done_q = <<>>
         /\ Cardinality(peer_table) = EntriesEmitted(1)


(***************************************************************************)
(* Properties of the fan-out of a scan.                                    *)
(***************************************************************************)

\* C14: the timeout of an index fetch is a function of the number of peers
\* alone: the short one when the swarm has more than 20 peers, the default
\* one when it has 20 or fewer, and every fetch of a scan is given the same
\* value.
C14_TimeoutByPeerCount ==
    fo_pc # "idle" =>
        /\ fo_cat_timeout = IF fo_peers > 20 THEN FAST_CAT_TIMEOUT
                                             ELSE DEFAULT_CAT_TIMEOUT
        /\ FAST_CAT_TIMEOUT < DEFAULT_CAT_TIMEOUT
        /\ fo_used \subseteq {fo_cat_timeout}

C14_Witness ==
    /\ fo_pc = "done"
    /\ fo_peers > 20
    /\ fo_used = {FAST_CAT_TIMEOUT}

\* C15: at most 20 fetches run at a time, every fetch has at most
\* min(10, number of its pointers) resolutions in flight, and so at most 200
\* resolutions are in flight over the whole scan.
C15_BoundedFanOut ==
    /\ FoFetchesRunning <= 20
    /\ \A i \in DOMAIN fo_fetch :
           fo_fetch[i].f <= (IF fo_fetch[i].k < 10 THEN fo_fetch[i].k ELSE 10)
    /\ FoInFlight <= 200

C15_Witness ==
    /\ FoFetchesRunning = 20
    /\ fo_waiting > 0
    /\ \E i \in DOMAIN fo_fetch :
          /\ fo_fetch[i].k > 10
          /\ fo_fetch[i].f = 10
          /\ fo_fetch[i].q > 0


(***************************************************************************)
(* Properties of publish-all: entries that fail, the index step, the end.  *)
(***************************************************************************)

\* The outcomes of this run for the key name k.
OutcomesOf(k) == {Outcomes[j] : j \in {i \in DOMAIN Outcomes : Outcomes[i].key = k}}

\* C16 as claimed: in a run whose key listing succeeded and that has ended,
\* every tracked entry whose naming key is not in the key list has an
\* "IPNS name not found" outcome, every entry whose key exists and whose
\* directory is gone has a "Directory not found" outcome, the loop having
\* gone on over every entry; and when no entry has both its key and its
\* directory, no add-directory and no name-publish call was made.
C16_MissingKeyOrDirectory ==
    (PublishEnded /\ Len(pub_list) >= 1 /\ "key_list" \notin svc_errors) =>
        /\ \A i \in DOMAIN pub_list :
              LET k == pub_list[i].name
              IN  /\ ~DictHas(local_keys, k) =>
                        \E o \in OutcomesOf(k) : o.error = "IPNS name not found"
                  /\ (DictHas(local_keys, k) /\ pub_list[i].path \notin dirs) =>
                        \E o \in OutcomesOf(k) : o.error = "Directory not found"
        /\ Len(Outcomes) = Len(pub_list)
        /\ Publishable = {} => calls \cap {"add", "name_publish"} = {}

\* C17: as long as a publish-all run has no success outcome, the index step
\* has not been entered: there is no scratch directory, no index document
\* was written and nothing was published under the self name.
C17_NoSuccessNoIndex ==
    SuccessKeys = {} =>
        /\ pub_pc # "index"
        /\ scratch = "none"
        /\ index_json = NULL
        /\ self_index = NULL

\* C17 witness: a run over tracked entries has ended after its key listing
\* without a success outcome.
C17_Witness ==
    /\ PublishEnded
    /\ Len(pub_list) >= 1
    /\ "key_list" \in calls
    /\ "key_list" \notin svc_errors
    /\ SuccessKeys = {}

\* The guard of the index step: with an empty published_keys the generator
\* returns and the index step is not entered.
EmptyMapSkipsIndex ==
    published_keys = <<>> =>
        /\ pub_pc \in {"loop", "complete"}
        /\ scratch = "none"
        /\ index_json = NULL
        /\ self_index = NULL
        /\ calls = {"key_list"}

\* C18: once the index step was entered, the scratch directory exists only
\* while the step is running; when publish_all_iter has returned or raised,
\* whichever of writing, adding and publishing failed, it is removed.
C18_ScratchRemoved ==
    /\ scratch = "exists" => pub_pc \in {"index", "hung"}
    /\ (pub_pc \in {"complete", "raised"} /\ published_keys # <<>>) =>
           scratch = "removed"

\* C18 witness: each of the four ways out of the index step was taken; here
\* the one where the index was written and added and name-publish failed.
C18_Witness ==
    /\ pub_pc = "raised"
    /\ index_json # NULL
    /\ svc_errors = {"name_publish"}
    /\ scratch = "removed"

\* C19 as claimed: a publish-all run in which the key listing succeeded and
\* no call was left unanswered ends in the empty report or in the completion
\* report, never in an exception.
C19_BatchReachesSummary ==
    (~ENABLED NextPublish /\ pub_pc \notin {"idle", "hung"}
         /\ "key_list" \notin svc_errors) =>
        pub_pc \in {"empty", "complete"}

\* C20 as claimed: every call of the adapter ends, with a value or with a
\* failure, so no scan and no publish-all is left waiting for a call that
\* never answers.
C20_EveryCallEnds ==
    /\ scan_pc # "hung"
    /\ pub_pc # "hung"

(***************************************************************************)
(* tui/app.py AddScreen, _add_worker, _on_add_complete, _browse_worker;    *)
(* tui/workers.py add_directory, remove_published, get_browse_entries      *)
(***************************************************************************)

MaxAdds == 2

\* The id the daemon gives the key it generates under a name.
KeyIdOf(name) ==
    IF name = <<"a">> THEN <<"k">>
    ELSE IF name = <<"b">> THEN <<"m">>
    ELSE <<"q">>

\* FipsyApp._load_published: table.add_row(entry["key"], ...) for every row
\* of db.list_published(); the rows have the columns path, name and added,
\* so the first row raises KeyError.
load_published(tbl) == IF tbl = {} THEN "ok" ELSE "KeyError"

\* The add dialog hands over a path and a key name and the worker thread
\* starts; add_directory has no check that the path is a directory.  The
\* model follows one add at a time.
AddStart ==
    /\ add_pc \in {"idle", "added", "failed"}
    /\ adds < MaxAdds
    /\ \E q \in Paths, nm \in KeyNames :
         /\ add_path' = q
         /\ add_key' = nm
    /\ add_pc' = "started"
    /\ add_done' = {}
    /\ adds' = adds + 1
    /\ published0' = published
    /\ UNCHANGED <<discovered, published, discovered0, calls, scanVars,
                   envVars, pubVars, db_log, rtVars, fanVars, db_schema,
                   swarm_lines, bootVars,
                   scan_threads, cliVars, browse_pc>>

\* One call of the adapter made by add_directory: the step is recorded when
\* the call returns; CalledProcessError ends add_directory and is caught by
\* _add_worker, which notifies "Add failed"; a call that never returns
\* leaves the worker waiting.
AddCall(op, ends, from, to) ==
    /\ add_pc = from
    /\ calls' = calls \cup {op}
    /\ \/ /\ "ok" \in ends
          /\ add_pc' = to
          /\ add_done' = add_done \cup {op}
       \/ /\ "CalledProcessError" \in ends
          /\ add_pc' = "failed"
          /\ UNCHANGED add_done
       \/ /\ "never" \in ends
          /\ add_pc' = "hung"
          /\ UNCHANGED add_done
    /\ UNCHANGED <<dbVars, scanVars, dirs, pubVars, db_log, rtVars, fanVars,
                   db_schema, swarm_lines, bootVars,
                   scan_threads, cliVars, add_path, add_key, adds,
                   browse_pc>>

\* keys = ipfs.key_list(); if key_name not in keys: ...
AddKeyList ==
    /\ AddCall("key_list", RunEnds(AdapterTimeout.key_list), "started",
               IF DictHas(local_keys, add_key) THEN "keyed" ELSE "no_key")
    /\ UNCHANGED local_keys

\* ipfs.key_gen(key_name): the daemon stores the new key.
AddKeyGen ==
    /\ AddCall("key_gen", RunEnds(AdapterTimeout.key_gen), "no_key", "keyed")
    /\ local_keys' = IF add_pc' = "keyed"
                     THEN Append(local_keys, <<add_key, KeyIdOf(add_key)>>)
                     ELSE local_keys

\* cid = ipfs.add_directory(str(abs_path)): `ipfs add` fails on a path that
\* does not exist.
AddAddDirectory ==
    /\ AddCall("add", IF add_path \in dirs THEN AddEnds
                      ELSE AddEnds \ {"ok"}, "keyed", "in_ipfs")
    /\ UNCHANGED local_keys

\* AddNamePublish with the failure of `ipfs name publish` swallowed.
AddNamePublish_swallowed ==
    /\ add_pc = "in_ipfs"
    /\ calls' = calls \cup {"name_publish"}
    /\ \/ /\ add_pc' = "named"
          /\ add_done' = add_done \cup {"name_publish"}
       \/ /\ add_pc' = "named"
          /\ UNCHANGED add_done
       \/ /\ add_pc' = "hung"
          /\ UNCHANGED add_done
    /\ UNCHANGED <<dbVars, scanVars, envVars, pubVars, db_log, rtVars, fanVars,
                   db_schema, swarm_lines, bootVars,
                   scan_threads, cliVars, add_path, add_key, adds,
                   browse_pc>>

\* ipfs.name_publish(cid, key=key_name, ttl="1m"): fails also when the key
\* has been removed from the daemon since it was listed.
AddNamePublish ==
    /\ AddCall("name_publish",
               IF DictHas(local_keys, add_key) THEN NamePublishEnds
               ELSE NamePublishEnds \ {"ok"}, "in_ipfs", "named")
    /\ UNCHANGED local_keys

\* keys = ipfs.key_list(); ipns_name = keys.get(key_name, "")
AddKeyListAgain ==
    /\ AddCall("key_list", RunEnds(AdapterTimeout.key_list), "named", "listed")
    /\ UNCHANGED local_keys

\* db.upsert_published(str(abs_path), key_name); add_directory returns and
\* _on_add_complete reloads the table, whose KeyError _add_worker catches
\* and reports as a failed add.
AddUpsert ==
    /\ add_pc = "listed"
    /\ published' = upsert_published(published, add_path, add_key, Now)
    /\ db_log' = Append(db_log, [op |-> "upsert_published", path |-> add_path,
                                 name |-> add_key, added |-> Now])
    /\ add_pc' = IF load_published(published') = "ok" THEN "added"
                 ELSE "failed"
    /\ add_done' = add_done \cup {"upsert_published"}
    /\ UNCHANGED <<discovered, discovered0, published0, calls, scanVars,
                   envVars, pubVars, rtVars, fanVars, db_schema, swarm_lines, bootVars,
                   scan_threads, cliVars,
                   add_path, add_key, adds, browse_pc>>

\* workers.get_browse_entries, run by _browse_worker: the key list, the
\* published rows read by e["key"], the discovered rows read by
\* row["ipns_name"], the pins; the rows have neither column.
get_browse_entries(pub, disc, key_list_end, pin_ls_end) ==
    IF key_list_end = "never" THEN "hung"
    ELSE IF key_list_end # "ok" THEN "raised"
    ELSE IF pub # {} THEN "raised"
    ELSE IF pin_ls_end = "never" THEN "hung"
    ELSE IF pin_ls_end # "ok" THEN "raised"
    ELSE IF list_discovered(disc) # {} THEN "raised"
    ELSE "loaded"

Browse ==
    /\ browse_pc = "idle"
    /\ \E k \in RunEnds(AdapterTimeout.key_list),
          n \in RunEnds(AdapterTimeout.pin_ls) :
         /\ browse_pc' = get_browse_entries(published, discovered, k, n)
         /\ calls' = calls \cup {"key_list"}
                \cup (IF k = "ok" /\ published = {} THEN {"pin_ls"} ELSE {})
    /\ UNCHANGED <<dbVars, scanVars, envVars, pubVars, db_log, rtVars, fanVars,
                   db_schema, swarm_lines, bootVars,
                   scan_threads, cliVars, add_pc, add_path, add_key,
                   add_done, adds>>

\* The My Content tab and the Browse tab of a running app: adds, publish-all
\* and the browse worker, in any interleaving.
InitContent ==
    /\ InitStore
    /\ calls = {}
    /\ InitScanVars
    /\ local_keys \in KeyStores
    /\ dirs = {<<"/", "x">>}
    /\ InitPubVars
    /\ db_log = <<>>
    /\ InitRtVars
    /\ InitFanVars
    /\ InitAppVars

NextContent ==
    \/ AddStart
    \/ AddKeyList
    \/ AddKeyGen
    \/ AddAddDirectory
    \/ AddNamePublish
    \/ AddKeyListAgain
    \/ AddUpsert
    \/ Browse
    \/ NextPublish

SpecContent == InitContent /\ [][NextContent]_vars

(***************************************************************************)
(* tui/workers.py: each operation run alone.                               *)
(***************************************************************************)

\* The operations of which a call has begun.
Begun ==
    (IF scan_pc # "idle" THEN {"scan"} ELSE {})
        \cup (IF pub_pc # "idle" THEN {"publish"} ELSE {})
        \cup (IF adds > 0 THEN {"add"} ELSE {})
        \cup (IF browse_pc # "idle" THEN {"browse"} ELSE {})
        \cup {"remove" : i \in {j \in DOMAIN db_log :
                                   db_log[j].op = "delete_published"}}
        \cup {"list" : i \in {j \in DOMAIN db_log : db_log[j].op = "list"}}

Alone(w) == Begun \subseteq {w}

\* The store holds a tracked directory and the rows of an earlier scan; the
\* daemon has the key of that directory.
InitWorkers ==
    /\ InitStore
    /\ published # {}
    /\ calls = {}
    /\ InitScanVars
    /\ local_keys = << <<Str_self, <<"n">>>>, <<<<"a">>, <<"k">>>> >>
    /\ dirs = {<<"/", "x">>}
    /\ InitPubVars
    /\ db_log = <<>>
    /\ InitRtVars
    /\ InitFanVars
    /\ InitAppVars

\* One operation runs from that store: a scan, a publish-all, adds, removes,
\* a browse or a listing.  SpecContent has the operations interleaved; here
\* each runs alone, and what it writes is its own.
NextWorkers ==
    \/ Alone("scan") /\ NextScan
    \/ Alone("publish") /\ NextPublish
    \/ /\ Alone("add")
       /\ \/ AddStart
          \/ AddKeyList
          \/ AddKeyGen
          \/ AddAddDirectory
          \/ AddNamePublish
          \/ AddKeyListAgain
          \/ AddUpsert
    \/ Alone("remove") /\ DbDeletePublished
    \/ Alone("browse") /\ Browse
    \/ Alone("list") /\ DbList

SpecWorkers == InitWorkers /\ [][NextWorkers]_vars

(***************************************************************************)
(* commands.py ensure_ipfs; ipfs.py is_installed, is_daemon_running,       *)
(* start_daemon; tui/workers.py check_ipfs; tui/app.py on_mount,           *)
(* _check_ipfs, _on_ipfs_error_dismiss; tui/screens.py IpfsErrorScreen     *)
(***************************************************************************)

DAEMON_STARTUP_TIMEOUT == 15
DAEMON_POLL_INTERVAL == 1

\* ipfs.is_daemon_running: the ways run_ipfs("id") ends.  Without the binary
\* subprocess.run raises FileNotFoundError, with the daemon down `ipfs id`
\* exits non-zero, and no timeout is passed.
ProbeEnds(inst, dmn) ==
    IF ~inst THEN {"FileNotFoundError"}
    ELSE IF dmn = "down" THEN {"CalledProcessError"}
    ELSE RunEnds(NULL) \ {"CalledProcessError"}

is_daemon_running(end) == end = "ok"

\* check_ipfs without the probe of the daemon.
check_ipfs_installed_only(inst, end) == <<inst, inst>>

\* workers.check_ipfs: (installed, daemon_running).
check_ipfs(inst, end) ==
    IF ~inst THEN <<FALSE, FALSE>> ELSE <<TRUE, is_daemon_running(end)>>

Availability(inst, running) ==
    IF ~inst THEN "not_installed"
    ELSE IF ~running THEN "not_running" ELSE "available"

\* db.init_db() as the first touch of the store by a program that starts.
BootInitDb ==
    LET r == create_table_if_not_exists(
                 create_table_if_not_exists(db_schema, discovered,
                                            "discovered").schema,
                 published, "published")
    IN  /\ db_schema' = r.schema
        /\ db_log' = Append(db_log, [op |-> "init_db"])

\* FipsyApp._check_ipfs: the error screen when the check fails; else
\* init_db and _load_published, whose KeyError on a tracked directory ends
\* the app.  The probe may never return.
CheckIpfs ==
    \E end \in ProbeEnds(installed, daemon) :
        /\ calls' = IF installed THEN calls \cup {"id"} ELSE calls
        /\ IF end = "never"
           THEN /\ boot_pc' = "hung"
                /\ UNCHANGED <<found, db_schema, db_log>>
           ELSE LET c == check_ipfs(installed, end)
                IN  /\ found' = Availability(c[1], c[2])
                    /\ IF ~c[1] \/ ~c[2]
                       THEN /\ boot_pc' = "error_screen"
                            /\ UNCHANGED <<db_schema, db_log>>
                       ELSE /\ BootInitDb
                            /\ boot_pc' =
                                 IF load_published(published) = "ok"
                                 THEN "ready" ELSE "crashed"
        /\ UNCHANGED <<dbVars, scanVars, envVars, pubVars, rtVars, fanVars,
                       swarm_lines, scan_threads, cliVars, contentVars, installed, daemon, polls>>

\* FipsyApp.on_mount
TuiMount ==
    /\ boot_pc = "init"
    /\ CheckIpfs

\* IpfsErrorScreen is dismissed, by Retry, by Quit or by escape:
\* _on_ipfs_error_dismiss checks again or exits.
TuiErrorDismiss ==
    /\ boot_pc = "error_screen"
    /\ \E retry \in BOOLEAN :
         IF retry THEN CheckIpfs
         ELSE /\ boot_pc' = "exited"
              /\ UNCHANGED <<dbVars, calls, scanVars, envVars, pubVars, db_log,
                             rtVars, fanVars, db_schema, swarm_lines,
                             scan_threads, cliVars, contentVars, installed, daemon,
                             polls, found>>

\* A command of the command line starts: ensure_ipfs up to the start of the
\* daemon, and db.init_db() when the daemon answers.
CliEnsureIpfs ==
    /\ boot_pc = "init"
    /\ IF ~installed
       THEN /\ boot_pc' = "cli_failed"
            /\ found' = "not_installed"
            /\ UNCHANGED <<calls, db_schema, db_log>>
       ELSE \E end \in ProbeEnds(installed, daemon) :
              IF end = "never"
              THEN /\ boot_pc' = "hung"
                   /\ calls' = calls \cup {"id"}
                   /\ UNCHANGED <<found, db_schema, db_log>>
              ELSE IF is_daemon_running(end)
              THEN /\ boot_pc' = "ready"
                   /\ found' = "available"
                   /\ calls' = calls \cup {"id"}
                   /\ BootInitDb
              ELSE /\ boot_pc' = "starting"
                   /\ found' = "not_running"
                   /\ calls' = calls \cup {"id", "daemon"}
                   /\ UNCHANGED <<db_schema, db_log>>
    /\ UNCHANGED <<dbVars, scanVars, envVars, pubVars, rtVars, fanVars,
                   swarm_lines, scan_threads, cliVars, contentVars, installed, daemon, polls>>

\* One turn of the loop of ipfs.start_daemon: sleep, elapsed += interval,
\* probe; RuntimeError once the time is up.  When the daemon answers
\* ensure_ipfs returns and the command goes on to db.init_db().
CliPoll ==
    /\ boot_pc = "starting"
    /\ polls < DAEMON_STARTUP_TIMEOUT
    /\ \E end \in ProbeEnds(installed, daemon) :
         IF end = "never"
         THEN /\ boot_pc' = "hung"
              /\ polls' = polls + DAEMON_POLL_INTERVAL
              /\ UNCHANGED <<found, db_schema, db_log>>
         ELSE IF is_daemon_running(end)
         THEN /\ boot_pc' = "ready"
              /\ polls' = 0
              /\ found' = "available"
              /\ BootInitDb
         ELSE /\ polls' = polls + DAEMON_POLL_INTERVAL
              /\ boot_pc' = IF polls' < DAEMON_STARTUP_TIMEOUT THEN "starting"
                            ELSE "cli_failed"
              /\ UNCHANGED <<found, db_schema, db_log>>
    /\ UNCHANGED <<dbVars, calls, scanVars, envVars, pubVars, rtVars, fanVars,
                   swarm_lines, scan_threads, cliVars, contentVars, installed, daemon>>

\* The daemon comes up: the user starts it as the error screen says, or the
\* one start_daemon launched has finished its start.
DaemonComesUp ==
    /\ installed
    /\ daemon = "down"
    /\ boot_pc \in {"error_screen", "starting"}
    /\ daemon' = "up"
    /\ UNCHANGED <<dbVars, calls, scanVars, envVars, pubVars, db_log, rtVars,
                   fanVars, db_schema, swarm_lines, scan_threads, cliVars, contentVars, boot_pc,
                   installed, polls, found>>

\* The program starts, as the app or as a command, over an empty store or
\* over none, with or without the binary and the daemon.
InitStartup ==
    /\ discovered = {}
    /\ published = {}
    /\ discovered0 = {}
    /\ published0 = {}
    /\ calls = {}
    /\ InitScanVars
    /\ local_keys = << <<Str_self, <<"n">>>>, <<<<"a">>, <<"k">>>> >>
    /\ dirs = {<<"/", "x">>}
    /\ InitPubVars
    /\ db_log = <<>>
    /\ InitRtVars
    /\ InitFanVars
    /\ db_schema \in {{}, Tables}
    /\ swarm_lines = 0
    /\ InitContentVars
    /\ scan_threads = <<>>
    /\ InitCliVars
    /\ boot_pc = "init"
    /\ installed \in BOOLEAN
    /\ daemon \in {"down", "up"}
    /\ ~installed => daemon = "down"
    /\ polls = 0
    /\ found = "none"

\* The operations a program that has started runs, one of them alone: the
\* bindings of the app, which the modal error screen keeps from firing, and
\* the body of a command.
BootOperate ==
    /\ boot_pc = "ready"
    /\ NextWorkers

NextStartup ==
    \/ TuiMount
    \/ TuiErrorDismiss
    \/ CliEnsureIpfs
    \/ CliPoll
    \/ DaemonComesUp
    \/ BootOperate

SpecStartup == InitStartup /\ [][NextStartup]_vars

(***************************************************************************)
(* tui/app.py action_scan, _start_scan, _scan_worker: the counters, with   *)
(* scans started while earlier ones run.  Of a scan only the number of     *)
(* its peers and the kind of each future's result are kept.                *)
(***************************************************************************)

MaxScans == 2
MaxRescanPeers == 2

\* A thread of _scan_worker: where it stands, the futures as_completed has
\* yet to hand over, and the value of _scan_done it has loaded.
ScanThread(pc, left, loaded) == [pc |-> pc, left |-> left, loaded |-> loaded]

\* The binding `s` at any time: _start_scan resets the counters and starts a
\* worker thread.  run_worker(exclusive=True) cancels the workers of the
\* group, which does not stop a thread that is running.
RsStartScan ==
    /\ Len(scan_threads) < MaxScans
    /\ scan_total' = 0
    /\ scan_done' = 0
    /\ scan_threads' = Append(scan_threads, ScanThread("started", 0, 0))
    /\ UNCHANGED <<dbVars, calls, envVars, pubVars, db_log, rtVars, fanVars,
                   db_schema, swarm_lines, contentVars, bootVars, cliVars>>
    /\ UNCHANGED <<scan_pc, network_status, peers, cat_timeout, fut, done_q,
                   yielded, peer_table>>

\* The first item of scan_peers_iter: self._scan_total = item, and the
\* return on 0; or ipfs.swarm_peers() raises and the thread ends.
RsTotal(i) ==
    /\ scan_threads[i].pc = "started"
    /\ \/ \E n \in 0..MaxRescanPeers :
            /\ scan_total' = n
            /\ scan_threads' = [scan_threads EXCEPT ![i] =
                   ScanThread(IF n = 0 THEN "ended" ELSE "running", n, 0)]
       \/ /\ scan_threads' = [scan_threads EXCEPT ![i] =
                                  ScanThread("ended", 0, 0)]
          /\ UNCHANGED scan_total
    /\ UNCHANGED <<dbVars, calls, envVars, pubVars, db_log, rtVars, fanVars,
                   db_schema, swarm_lines, contentVars, bootVars, cliVars>>
    /\ UNCHANGED <<scan_pc, scan_done, network_status, peers, cat_timeout,
                   fut, done_q, yielded, peer_table>>

\* One future is handed over: its result is None and nothing is yielded, or
\* it raises and the generator ends, or a result is yielded and the thread
\* loads self._scan_done for `self._scan_done += 1`.
RsNext(i) ==
    /\ scan_threads[i].pc = "running"
    /\ scan_threads[i].left > 0
    /\ \E kind \in {"None", "exc", "result"} :
         scan_threads' = [scan_threads EXCEPT ![i] =
             IF kind = "exc" THEN ScanThread("ended", 0, 0)
             ELSE IF kind = "None" THEN ScanThread("running", @.left - 1, 0)
             ELSE ScanThread("loaded", @.left - 1, scan_done)]
    /\ UNCHANGED <<dbVars, calls, envVars, pubVars, db_log, rtVars, fanVars,
                   db_schema, swarm_lines, contentVars, bootVars, cliVars>>
    /\ UNCHANGED scanVars

\* The store of `self._scan_done += 1`: the value loaded, plus one.
RsStore(i) ==
    /\ scan_threads[i].pc = "loaded"
    /\ scan_done' = scan_threads[i].loaded + 1
    /\ scan_threads' = [scan_threads EXCEPT ![i] =
                            ScanThread("running", @.left, 0)]
    /\ UNCHANGED <<dbVars, calls, envVars, pubVars, db_log, rtVars, fanVars,
                   db_schema, swarm_lines, contentVars, bootVars, cliVars>>
    /\ UNCHANGED <<scan_pc, scan_total, network_status, peers, cat_timeout,
                   fut, done_q, yielded, peer_table>>

\* The generator is exhausted: the thread calls _scan_complete and ends.
RsComplete(i) ==
    /\ scan_threads[i].pc = "running"
    /\ scan_threads[i].left = 0
    /\ scan_threads' = [scan_threads EXCEPT ![i] = ScanThread("ended", 0, 0)]
    /\ UNCHANGED <<dbVars, calls, envVars, pubVars, db_log, rtVars, fanVars,
                   db_schema, swarm_lines, contentVars, bootVars, cliVars>>
    /\ UNCHANGED scanVars

\* FipsyApp.__init__: the counters are 0 and no scan has started.
InitRescan ==
    /\ InitStore
    /\ calls = {}
    /\ InitScanVars
    /\ InitEnvFixed
    /\ InitPubVars
    /\ db_log = <<>>
    /\ InitRtVars
    /\ InitFanVars
    /\ InitAppVars

NextRescan ==
    \/ RsStartScan
    \/ \E i \in DOMAIN scan_threads : RsTotal(i)
    \/ \E i \in DOMAIN scan_threads : RsNext(i)
    \/ \E i \in DOMAIN scan_threads : RsStore(i)
    \/ \E i \in DOMAIN scan_threads : RsComplete(i)

SpecRescan == InitRescan /\ [][NextRescan]_vars

(***************************************************************************)
(* commands.py scan: the loop that stores the results, _pin_cid            *)
(***************************************************************************)

MaxCliResults == 2

\* The peers of the results, in the order their fetches completed.
CliPeers == << <<"p">>, <<"q">>, <<"r">> >>

\* What _resolve_key returns.
CliResolved == {resolve_key(o) : o \in ResolveOutcomes}

\* The values _fetch_peer_index returns for peer p over the index documents
\* with pointers: (peer_id, {name: (key_id, resolved)}), the dict in the
\* order the resolutions completed.
CliResultsOf(p) ==
    UNION {LET ks == fetch_index([kind |-> "ok", doc |-> d,
                                  raw |-> Strip(DocText[d])]).keys
           IN  {[peer_id |-> p,
                 ipns_keys |-> [i \in DOMAIN ord |->
                                   [name |-> ord[i][1],
                                    ipns_name |-> PyVal(ord[i][2]),
                                    resolved |-> f[ord[i][1]]]]] :
                    ord \in Perms(ks), f \in [DictKeys(ks) -> CliResolved]}
           : d \in {"one", "two"}}

\* The lists _fetch_peer_indexes returns that are not empty.
CliResultLists ==
    UNION {{l \in [1..n -> UNION {CliResultsOf(CliPeers[i]) : i \in 1..n}] :
               \A i \in 1..n : l[i].peer_id = CliPeers[i]} :
           n \in 1..MaxCliResults}

\* `if resolved:`
CliTruthy(resolved) == resolved # NULL /\ resolved # <<>>

\* The loop goes on to the next name, or to the next result.
CliAdvance ==
    IF cli_j < Len(cli_results[cli_i].ipns_keys)
    THEN /\ cli_j' = cli_j + 1
         /\ UNCHANGED cli_i
    ELSE /\ cli_i' = cli_i + 1
         /\ cli_j' = 0

\* for peer_id, ipns_keys in results: db.upsert_discovered(peer_id, peer_id)
CliStorePeer ==
    /\ cli_pc = "loop"
    /\ cli_i <= Len(cli_results)
    /\ cli_j = 0
    /\ LET r == upsert_discovered(discovered, cli_results[cli_i].peer_id,
                                  cli_results[cli_i].peer_id, NULL)
       IN  /\ discovered' = r.tbl
           /\ IF r.err THEN cli_pc' = "raised" /\ UNCHANGED cli_j
              ELSE cli_j' = 1 /\ UNCHANGED cli_pc
    /\ UNCHANGED <<published, discovered0, published0, calls, scanVars,
                   envVars, pubVars, db_log, rtVars, fanVars, db_schema,
                   swarm_lines, contentVars, bootVars, scan_threads,
                   cli_results, cli_pin, cli_i, cli_pins>>

\* The row of an entry, and where the loop stands after it.
CliUpsertEntry(peer_id, e) ==
    LET r == upsert_discovered(discovered, peer_id, e.ipns_name, e.name)
    IN  /\ discovered' = r.tbl
        /\ IF r.err THEN cli_pc' = "raised" /\ UNCHANGED <<cli_i, cli_j>>
           ELSE CliAdvance /\ UNCHANGED cli_pc

\* CliStoreEntry with the row left out when the pin failed.
CliStoreEntry_pinned_only ==
    /\ cli_pc = "loop"
    /\ cli_i <= Len(cli_results)
    /\ cli_j >= 1
    /\ LET peer_id == cli_results[cli_i].peer_id
           e == cli_results[cli_i].ipns_keys[cli_j]
       IN  IF CliTruthy(e.resolved) /\ cli_pin
           THEN /\ calls' = calls \cup {"pin_add"}
                /\ \E end \in RunEnds(AdapterTimeout.pin_add) :
                     IF end = "never"
                     THEN /\ cli_pc' = "hung"
                          /\ UNCHANGED <<discovered, cli_i, cli_j, cli_pins>>
                     ELSE /\ cli_pins' = Append(cli_pins,
                                 [i |-> cli_i, j |-> cli_j,
                                  cid |-> LastSegment(e.resolved),
                                  pinned |-> end = "ok"])
                          /\ IF end = "ok" THEN CliUpsertEntry(peer_id, e)
                             ELSE /\ CliAdvance
                                  /\ UNCHANGED <<discovered, cli_pc>>
           ELSE /\ CliUpsertEntry(peer_id, e)
                /\ UNCHANGED <<calls, cli_pins>>
    /\ UNCHANGED <<published, discovered0, published0, scanVars, envVars,
                   pubVars, db_log, rtVars, fanVars, db_schema, swarm_lines,
                   contentVars, bootVars, scan_threads, cli_results, cli_pin>>

\* One name of a result: when it resolved and --pin is given, _pin_cid,
\* which catches CalledProcessError and may wait for ever on ipfs.pin_add;
\* then db.upsert_discovered(peer_id, ipns_name, name=name) in both branches.
CliStoreEntry ==
    /\ cli_pc = "loop"
    /\ cli_i <= Len(cli_results)
    /\ cli_j >= 1
    /\ LET peer_id == cli_results[cli_i].peer_id
           e == cli_results[cli_i].ipns_keys[cli_j]
       IN  IF CliTruthy(e.resolved) /\ cli_pin
           THEN /\ calls' = calls \cup {"pin_add"}
                /\ \E end \in RunEnds(AdapterTimeout.pin_add) :
                     IF end = "never"
                     THEN /\ cli_pc' = "hung"
                          /\ UNCHANGED <<discovered, cli_i, cli_j, cli_pins>>
                     ELSE /\ cli_pins' = Append(cli_pins,
                                 [i |-> cli_i, j |-> cli_j,
                                  cid |-> LastSegment(e.resolved),
                                  pinned |-> end = "ok"])
                          /\ CliUpsertEntry(peer_id, e)
           ELSE /\ CliUpsertEntry(peer_id, e)
                /\ UNCHANGED <<calls, cli_pins>>
    /\ UNCHANGED <<published, discovered0, published0, scanVars, envVars,
                   pubVars, db_log, rtVars, fanVars, db_schema, swarm_lines,
                   contentVars, bootVars, scan_threads, cli_results, cli_pin>>

\* The loop has passed the last result and the command ends.
CliStoreDone ==
    /\ cli_pc = "loop"
    /\ cli_i > Len(cli_results)
    /\ cli_pc' = "done"
    /\ UNCHANGED <<dbVars, calls, scanVars, envVars, pubVars, db_log, rtVars,
                   fanVars, db_schema, swarm_lines, contentVars, bootVars,
                   scan_threads, cli_results, cli_pin, cli_i, cli_j,
                   cli_pins>>

\* scan has got the results of _fetch_peer_indexes, with or without --pin,
\* over a store earlier scans may have filled.
InitCliScan ==
    /\ InitStore
    /\ calls = {"swarm_peers", "cat", "name_resolve"}
    /\ InitScanVars
    /\ InitEnvFixed
    /\ InitPubVars
    /\ db_log = <<>>
    /\ InitRtVars
    /\ InitFanVars
    /\ db_schema = Tables
    /\ swarm_lines = 0
    /\ InitContentVars
    /\ InitBootVars
    /\ scan_threads = <<>>
    /\ cli_pc = "loop"
    /\ cli_results \in CliResultLists
    /\ cli_pin \in BOOLEAN
    /\ cli_i = 1
    /\ cli_j = 0
    /\ cli_pins = <<>>

NextCliScan ==
    \/ CliStorePeer
    \/ CliStoreEntry
    \/ CliStoreDone

SpecCliScan == InitCliScan /\ [][NextCliScan]_vars

(***************************************************************************)
(* Properties of the state store: what is kept.                            *)
(***************************************************************************)

\* The call a step of the state store has just logged, if it logged one.
Logged(op) ==
    /\ Len(db_log') = Len(db_log) + 1
    /\ db_log'[Len(db_log')].op = op

\* C23: under any sequence of calls on the state store (all that scans,
\* publishes, adds, removes and listings do to it) a discovered row, once
\* stored, stays: every step keeps each (node_id, pointer) that was there
\* and changes at most the name.
C23_DiscoveredMonotone ==
    [][\A r \in discovered :
          \E r2 \in discovered' :
              /\ r2.node_id = r.node_id
              /\ r2.ipns_key = r.ipns_key]_vars

\* C23 witness: after an upsert of a second pointer of a node, a removal
\* and a listing, the rows the store began with are there.
C23_Witness ==
    /\ discovered0 # {}
    /\ \E i, j \in DOMAIN db_log :
          /\ db_log[i].op = "upsert_discovered"
          /\ db_log[i].node_id = <<"p">>
          /\ db_log[i].ipns_key = <<"k">>
          /\ db_log[j].op = "delete_published"
          /\ db_log[j].deleted
    /\ \A r \in discovered0 :
          \E r2 \in discovered : r2.node_id = r.node_id /\ r2.ipns_key = r.ipns_key

\* C25: init_db, run at any point of any sequence of calls, leaves every
\* row of both tables as it was, and both tables exist afterwards.
C25_InitDbIdempotent ==
    [][Logged("init_db") =>
          /\ discovered' = discovered
          /\ published' = published
          /\ db_schema' = Tables]_vars

\* C25 witness: init_db has run twice over tables that held rows.
C25_Witness ==
    /\ discovered # {}
    /\ published # {}
    /\ \E i, j \in DOMAIN db_log :
          /\ i < j
          /\ db_log[i].op = "init_db"
          /\ db_log[j].op = "init_db"

\* C30: remove-published of a path deletes the row of that path and no
\* other, reports true exactly when there was such a row, and leaves the
\* discovered table alone; on an untracked path it reports false and both
\* tables are as they were.
C30_RemoveExactlyThePath ==
    [][Logged("delete_published") =>
          LET call == db_log'[Len(db_log')]
              had == \E r \in published : r.path = call.path
          IN  /\ published' = {r \in published : r.path # call.path}
              /\ call.deleted <=> had
              /\ ~had => published' = published
              /\ discovered' = discovered]_vars

\* C30 witness: one removal found its row and left another path's row, one
\* removal found nothing.
C30_Witness ==
    /\ published # {}
    /\ \E i, j \in DOMAIN db_log :
          /\ db_log[i].op = "delete_published"
          /\ db_log[i].deleted
          /\ db_log[j].op = "delete_published"
          /\ ~db_log[j].deleted

(***************************************************************************)
(* Properties of the rows a scan stores.                                   *)
(***************************************************************************)

\* C24 as claimed: once the result of a peer is persisted, the row
\* (node_id, node_id) of that peer has no name, and every row without a
\* name is a self-pointer row, whatever pointers the peer's index declares.
C24_SelfRowHasNoName ==
    /\ \A i \in DOMAIN yielded :
          yielded[i].kind = "result" =>
              Row(yielded[i].peer_id, yielded[i].peer_id, NULL) \in discovered
    /\ \A r \in discovered : r.name = NULL => r.ipns_key = r.node_id

\* The results scan_peers_iter has yielded.
ResultsYielded == {i \in DOMAIN yielded : yielded[i].kind = "result"}

\* C29: the peers of a scan are peer ids, each once however many addresses
\* the service listed it under; each has one future and at most one result,
\* so the results never outnumber the total reported.
C29_OneFetchPerPeer ==
    /\ peers \subseteq PeerIds
    /\ DOMAIN fut \subseteq peers
    /\ yielded # <<>> =>
          /\ scan_total = Cardinality(peers)
          /\ scan_total <= swarm_lines
          /\ Cardinality(ResultsYielded) <= scan_total
    /\ \A p \in PeerIds : Cardinality(YieldedFor(p)) <= 1

\* C29 witness: the service listed a peer under two addresses; the scan
\* counted one peer and ended with its one result.
C29_Witness ==
    /\ swarm_lines = 2
    /\ scan_total = 1
    /\ scan_pc = "complete"
    /\ Cardinality(ResultsYielded) = 1

\* The store after the results of p and then of q are persisted over tbl.
PersistedInOrder(tbl, p, q) ==
    persist_result(persist_result(tbl, p, fut[p].entries).tbl, q, fut[q].entries).tbl

\* C26: the results of two distinct peers may be persisted in either order:
\* both orders give the same table, and once both are persisted the rows of
\* the two peers are those of that table; and every row of the table is a
\* whole row, with its node id and its pointer, one row per (node id,
\* pointer).
C26_WritesDoNotConflict ==
    /\ \A p, q \in DOMAIN fut :
          (p # q /\ fut[p].ret = "result" /\ fut[q].ret = "result") =>
              /\ PersistedInOrder(discovered, p, q) = PersistedInOrder(discovered, q, p)
              /\ PersistedInOrder(discovered0, p, q) = PersistedInOrder(discovered0, q, p)
              /\ (YieldedFor(p) # {} /\ YieldedFor(q) # {}) =>
                    RowsOf(discovered, p) \cup RowsOf(discovered, q) =
                        RowsOf(PersistedInOrder(discovered0, p, q), p)
                            \cup RowsOf(PersistedInOrder(discovered0, p, q), q)
    /\ \A r \in discovered :
          /\ DOMAIN r = {"node_id", "ipns_key", "name"}
          /\ r.node_id # NULL
          /\ r.ipns_key # NULL
          /\ \A r2 \in discovered :
                (r2.node_id = r.node_id /\ r2.ipns_key = r.ipns_key) => r2 = r

\* C26 witness: two peers declared the same pointer, the result of q was
\* persisted before that of p, and each peer has its own row of the pointer.
C26_Witness ==
    /\ Len(yielded) = 3
    /\ yielded[2].kind = "result"
    /\ yielded[2].peer_id = <<"q">>
    /\ yielded[3].kind = "result"
    /\ yielded[3].peer_id = <<"p">>
    /\ Row(<<"p">>, <<"k">>, <<"a">>) \in discovered
    /\ Row(<<"q">>, <<"k">>, <<"a">>) \in discovered

(***************************************************************************)
(* Properties of add-directory and of what publish-all reads back.         *)
(***************************************************************************)

\* C22: add-directory writes the row of the published table only once the
\* naming key exists in the daemon (generated when the listing lacked it)
\* and the add and the publish under that key have succeeded, and the row
\* it writes is (its path, its key name); an add in which the key
\* generation, the add or the publish failed or did not return has left
\* the published table as it was when the add started.
C22_RowAfterKeyAddPublish ==
    /\ [][published' # published =>
            /\ DictHas(local_keys, add_key)
            /\ {"key_list", "add", "name_publish"} \subseteq add_done
            /\ published' = upsert_published(published, add_path, add_key, Now)
            /\ \A row \in published' \ published :
                   row.path = add_path /\ row.name = add_key]_vars
    /\ [](/\ add_pc \in {"failed", "hung"}
          /\ ~({"add", "name_publish"} \subseteq add_done)
          => published = published0)
    /\ []("key_gen" \in add_done => DictHas(local_keys, add_key))

\* An add under a key the daemon did not have has generated it and written
\* the row.
C22_Witness ==
    /\ {"key_gen", "add", "name_publish", "upsert_published"} \subseteq add_done
    /\ \E row \in published : row.path = add_path /\ row.name = add_key
    /\ published # published0

\* The entries of the list publish-all read that are the row the add wrote.
AddedEntries ==
    {i \in DOMAIN pub_list :
        pub_list[i].path = add_path /\ pub_list[i].name = add_key}

\* C28 as claimed: when an add has written its row and a publish-all whose
\* key listing succeeded has read that row back as an entry with the add's
\* path and key name, the publish-all ends with an outcome whose key is that
\* key name.
C28_AddedIsPublished ==
    (/\ "upsert_published" \in add_done
     /\ AddedEntries # {}
     /\ PublishEnded
     /\ "key_list" \notin svc_errors)
    => \E j \in DOMAIN Outcomes : Outcomes[j].key = add_key

\* What the code keeps of C28: the list publish-all reads holds the row of
\* a finished add, with the add's path and key name.
AddedIsReadBack ==
    [][(/\ pub_pc = "started" /\ pub_pc' # "started"
        /\ "upsert_published" \in add_done)
       => \E i \in DOMAIN pub_list' :
              pub_list'[i].path = add_path /\ pub_list'[i].name = add_key]_vars

(***************************************************************************)
(* Properties of the operations: which table each of them writes.          *)
(***************************************************************************)

\* The step is one of a scan, of a publish-all, of an add, of a browse.
ScanStep == scanVars' # scanVars
PublishStep == pubVars' # pubVars
AddStep == <<add_pc, add_path, add_key, add_done, adds>>'
               # <<add_pc, add_path, add_key, add_done, adds>>
BrowseStep == browse_pc' # browse_pc

\* C21: the published table changes only in the step of an add that calls
\* upsert_published and in a remove; no step of a scan, of a publish-all, of
\* a browse or of a listing changes it; and no step of a publish-all changes
\* the discovered table.
C21_PublishedWrittenByAddAndRemove ==
    [][/\ published' # published =>
            \/ AddStep /\ Logged("upsert_published")
            \/ Logged("delete_published")
       /\ (ScanStep \/ PublishStep \/ BrowseStep \/ Logged("list")) =>
            published' = published
       /\ PublishStep => discovered' = discovered]_vars

\* A scan has run to its end and stored rows, over a published table that
\* holds a tracked directory.
C21_Witness ==
    /\ scan_pc = "complete"
    /\ discovered # discovered0
    /\ published # {}
    /\ published = published0

(***************************************************************************)
(* Properties of the start of the program.                                 *)
(***************************************************************************)

\* The step touches the state store, begins an operation or issues an
\* operation of the content service other than the probe and the start of
\* the daemon.
Operates ==
    \/ db_log' # db_log
    \/ db_schema' # db_schema
    \/ dbVars' # dbVars
    \/ Begun' # Begun
    \/ (calls' \ calls) \ {"id", "daemon"} # {}

\* Nothing operates but a program whose last check found the binary and
\* the daemon, and a program gets there only with both present.
Gated ==
    /\ Operates => found' = "available" /\ boot_pc' \in {"ready", "crashed"}
    /\ (boot_pc # "ready" /\ boot_pc' = "ready") =>
           installed /\ daemon = "up" /\ found' = "available"

\* Leaving the error screen ends the app, unless the check was run again,
\* and then the app goes on only if the check found the service.
DismissExits ==
    (boot_pc = "error_screen" /\ boot_pc' # "error_screen") =>
        \/ boot_pc' = "exited" /\ db_log' = db_log /\ calls' = calls
        \/ boot_pc' \in {"ready", "crashed"} /\ found' = "available"
        \/ boot_pc' = "hung"

\* C27 as claimed: nothing touches the store or operates the service
\* unless the service was found installed and running; a start that finds
\* the binary missing or the daemon unreachable is fatal, it ends the
\* command or puts up the error screen and starts nothing; and leaving the
\* error screen without retry exits.
C27_UnavailableIsFatal ==
    [][/\ Gated
       /\ (boot_pc = "init" /\ found' \in {"not_installed", "not_running"}) =>
              /\ boot_pc' \in {"cli_failed", "error_screen"}
              /\ calls' \subseteq calls \cup {"id"}
       /\ DismissExits]_vars

\* C27, amended: nothing touches the store or operates the service unless
\* the service was found installed and running; a start that finds the
\* binary missing ends the command or puts up the error screen; a start
\* that finds the daemon unreachable puts up the error screen in the app,
\* while a command starts the daemon, probes it for at most
\* DAEMON_STARTUP_TIMEOUT seconds and fails only if it has not answered by
\* then; and leaving the error screen without retry exits.
C27_OperateOnlyWhenAvailable ==
    [][/\ Gated
       /\ (boot_pc = "init" /\ found' = "not_installed") =>
              boot_pc' \in {"cli_failed", "error_screen"} /\ calls' = calls
       /\ (boot_pc = "init" /\ found' = "not_running") =>
              boot_pc' \in {"starting", "error_screen"}
       /\ (boot_pc = "starting" /\ boot_pc' = "cli_failed") =>
              polls' = DAEMON_STARTUP_TIMEOUT /\ db_log' = <<>>
       /\ DismissExits]_vars

\* A command found the daemon down, started it, and has run a scan to its
\* end.
C27_Witness ==
    /\ "daemon" \in calls
    /\ boot_pc = "ready"
    /\ db_log # <<>>
    /\ scan_pc = "complete"

(***************************************************************************)
(* Properties of the scan counters.                                        *)
(***************************************************************************)

\* C31 as claimed: in every state 0 <= _scan_done <= _scan_total, also when
\* a scan is started while the thread of an earlier one still runs.
C31_CountersConsistent ==
    /\ 0 <= scan_done
    /\ scan_done <= scan_total

\* What the code keeps of C31: while one scan only has been started, the
\* counters are consistent.
OneScanCountersConsistent ==
    Len(scan_threads) <= 1 => (0 <= scan_done /\ scan_done <= scan_total)

(***************************************************************************)
(* Properties of the rows a scan stores: what they depend on.              *)
(***************************************************************************)

\* The rows of peer p the loop stores when the resolutions of its pointers
\* complete in the order of es.
RowsInOrder(p, es) == RowsOf(persist_result(discovered0, p, es).tbl, p)

\* C32 as claimed: the rows stored for a peer whose result has been
\* persisted are those that every completion order of the resolutions of
\* the same index would have stored, so two runs over the same index end
\* with the same rows and display names, also when the index gives two
\* display names to one pointer.
C32_RowsDeterminedByIndex ==
    \A p \in DOMAIN fut :
        YieldedFor(p) # {} =>
            \A es \in Perms(fut[p].entries) :
                RowsOf(discovered, p) = RowsInOrder(p, es)

\* What the code keeps of C32: the rows depend on the order only in the
\* display name; every order stores the rows of the same pointers.
PointersDeterminedByIndex ==
    \A p \in DOMAIN fut :
        YieldedFor(p) # {} =>
            \A es \in Perms(fut[p].entries) :
                {r.ipns_key : r \in RowsOf(discovered, p)} =
                    {r.ipns_key : r \in RowsInOrder(p, es)}

(***************************************************************************)
(* commands.py scan, _fetch_peer_indexes: the scan of the command line,    *)
(* over the futures of the scan of the app.                                *)
(***************************************************************************)

\* The orders in which as_completed may hand over the futures of the peers.
CompletionOrders ==
    {o \in [1..Cardinality(DOMAIN fut) -> DOMAIN fut] :
        \A p \in DOMAIN fut : \E i \in DOMAIN o : o[i] = p}

\* _fetch_peer_indexes: future.result() re-raises what _fetch_peer_index
\* raised and the results collected are lost; else the results that are not
\* None, in the order of completion.
cli_fetch_peer_indexes(o) ==
    IF \E p \in DOMAIN fut : fut[p].ret = "exc"
    THEN [err |-> TRUE, results |-> <<>>]
    ELSE [err |-> FALSE,
          results |-> SelectSeq(o, LAMBDA p : fut[p].ret = "result")]

\* The loop of scan over the results: for each peer the self-pointer row,
\* then one row per name in the order of the dict, which is the order the
\* resolutions completed in; an upsert that raises ends the command.
RECURSIVE cli_persist(_, _, _)
cli_persist(tbl, results, i) ==
    IF i > Len(results) THEN tbl
    ELSE LET r == persist_result(tbl, results[i], fut[results[i]].entries)
         IN  IF r.err THEN r.tbl ELSE cli_persist(r.tbl, results, i + 1)

\* commands.scan after init_db: the discovered table it leaves.
cli_scan(tbl, o) ==
    LET f == cli_fetch_peer_indexes(o)
    IN  IF f.err THEN tbl ELSE cli_persist(tbl, f.results, 1)

(***************************************************************************)
(* Properties of the two scans.                                            *)
(***************************************************************************)

\* C33 as claimed: over the same peers and the same outcomes of the fetches
\* and the resolutions, in some order of completion, a scan of the app that
\* ran to its end has left the rows the scan of the command line leaves,
\* and one that an error ended has written no row the command does not
\* hold in the end (the command, which stores after collecting, has written
\* none the app would not).
C33_CliAndTuiAgree ==
    /\ scan_pc = "complete" =>
           \E o \in CompletionOrders : discovered = cli_scan(discovered0, o)
    /\ scan_pc = "raised" /\ fut # <<>> =>
           \E o \in CompletionOrders :
               discovered \ discovered0 \subseteq cli_scan(discovered0, o)

\* What the code keeps of C33: a scan of the app that ran to its end has
\* left the rows of the command, and so has one no future of which raised,
\* as far as it got.
AgreeWithoutRaisedFuture ==
    /\ scan_pc = "complete" =>
           \E o \in CompletionOrders : discovered = cli_scan(discovered0, o)
    /\ (/\ scan_pc = "raised" /\ fut # <<>>
        /\ \A p \in DOMAIN fut : fut[p].ret # "exc") =>
           \E o \in CompletionOrders :
               discovered \ discovered0 \subseteq cli_scan(discovered0, o)

(***************************************************************************)
(* Properties of the scan of the command line with --pin.                  *)
(***************************************************************************)

\* The entries the store loop has passed: (result, name) positions.
CliPassed ==
    {<<i, j>> \in (DOMAIN cli_results) \X (1..2) :
        /\ j <= Len(cli_results[i].ipns_keys)
        /\ \/ i < cli_i
           \/ i = cli_i /\ j < cli_j}

\* C34: a pin is requested only with --pin and only for an entry whose
\* pointer resolved, with the last segment of the resolved path; every
\* entry the loop has passed has its row in the discovered table, with its
\* pointer and its name, whether its pin succeeded, failed or was not
\* attempted; and a command that ends has recorded every entry.  (A pin
\* that never returns is none of the three: the loop does not pass it.)
C34_PinOnlyResolvedRowAlways ==
    /\ \A k \in DOMAIN cli_pins :
          LET e == cli_results[cli_pins[k].i].ipns_keys[cli_pins[k].j]
          IN  /\ cli_pin
              /\ CliTruthy(e.resolved)
              /\ cli_pins[k].cid = LastSegment(e.resolved)
    /\ "pin_add" \in calls => cli_pins # <<>> \/ cli_pc = "hung"
    /\ \A x \in CliPassed :
          Row(cli_results[x[1]].peer_id, cli_results[x[1]].ipns_keys[x[2]].ipns_name,
              cli_results[x[1]].ipns_keys[x[2]].name) \in discovered
    /\ cli_pc = "done" =>
          \A i \in DOMAIN cli_results : \A j \in DOMAIN cli_results[i].ipns_keys :
              <<i, j>> \in CliPassed

\* A command with --pin has ended over a result with an entry pinned, one
\* whose pin failed and one that did not resolve.
C34_Witness ==
    /\ cli_pc = "done"
    /\ \E k \in DOMAIN cli_pins : cli_pins[k].pinned
    /\ \E k \in DOMAIN cli_pins : ~cli_pins[k].pinned
    /\ \E i \in DOMAIN cli_results : \E j \in DOMAIN cli_results[i].ipns_keys :
          ~CliTruthy(cli_results[i].ipns_keys[j].resolved)

=============================================================================
